---- MODULE Spec2Model ----
(***************************************************************************)
(* Life RPG (src/app.js): the rollover and scoring engine.                 *)
(*                                                                         *)
(* Calendar dates ('YYYY-MM-DD' strings in the code) are day numbers       *)
(* counted from 1970-01-01; instants are local wall-clock ticks,           *)
(* TicksPerDay to a day.  The in-memory AppState and the IndexedDB stores  *)
(* are separate state; every `await db.X` is a point where another         *)
(* callback may run, and a write is applied when it is acknowledged.       *)
(***************************************************************************)
EXTENDS Integers, Sequences, FiniteSets, TLC

(* ------------------------------ bounds --------------------------------- *)

\* first day of the window explored (10 = Sun 1970-01-11)
FirstDay == 10
\* number of days the clock may advance past FirstDay
Horizon == 2
\* instants per calendar day
TicksPerDay == 2

(* --------------------------- program constants ------------------------- *)

\* null / unset (DefaultMeta.lastAssignmentRun, completedAt, dueDate)
Null == -1
\* 1970-01-01 was a Thursday: Date.getDay() of day n is (n + 4) % 7
EpochWeekday == 4
HoursPerDay == 24

weekdays == <<"Sun", "Mon", "Tue", "Wed", "Thu", "Fri", "Sat">>

DefaultSettings ==
  [ dailyGoal |-> 100, dailyQuestCount |-> 3, weekStart |-> "Mon",
    weeklyQuestMode |-> "fixed", weeklyQuestCount |-> 3,
    weeklyQuestMin |-> 2, weeklyQuestMax |-> 4,
    \* weeklyFactor 1.5, kept in tenths
    weeklyFactor10 |-> 15 ]

DefaultMeta ==
  [ streak |-> 0, bestStreak |-> 0, lastAssignmentRun |-> Null, lastWeekStart |-> Null ]

\* sw.js: a Response, by its status and the resource its body is
ShellResponse == [ status |-> 200, body |-> "index.html" ]
\* no entry under './index.html' in the cache (cache.match gives undefined)
NoEntry == [ status |-> 0, body |-> "none" ]
\* sw.js install: cache.addAll(APP_SHELL) stores ./index.html, and rejects
\* (no worker is installed) unless every response of the shell is ok
Precached == ShellResponse

LastDay == FirstDay + Horizon
Days == FirstDay .. LastDay
\* the entities the user may create
LibIds == {"q1"}
TaskIds == {"t1"}
HabitIds == {"h1"}
\* the callers of ensureRollover: boot(), the 60 s timer, visibilitychange
Callers == {"boot", "timer", "vis"}
\* two clicks on habit buttons whose handlers may be in flight together
Clicks == {"click1", "click2"}
Procs == Callers \cup Clicks
\* local UTC offsets (hours) the browser may run under
TzOffsets == {-5, 0}
\* what the user types into the forms
TaskPointChoices == {100}
HabitPointChoices == {20}
QuestPointChoices == {10}
ActiveChoices == {TRUE}
DueChoices == {"none"}
ScheduleChoices == { {"Sun"}, {"Sun", "Mon", "Tue", "Wed", "Thu", "Fri", "Sat"} }

VARIABLES
  clock,          \* the wall clock, a local instant
  tzOffset,       \* the browser's UTC offset in hours
  settings,       \* AppState.settings
  meta,           \* AppState.meta, the lifecycle record
  tasks, habits, habitLogs, events, questLibrary, assignedQuests, daySummaries,
  db,             \* the origin's storage: the IndexedDB stores and, in cache,
                  \* the worker's Cache Storage entry under './index.html'
  pc,             \* where each callback is suspended
  loc,            \* the locals of each callback
  turn,           \* the callback that is running synchronously, or "none"
  nextUid,        \* uid() never repeats
  hist,           \* per call: what the call has done so far
  hDailyCalls,    \* per date: invocations of assignDailyQuests
  hWeeklyCalls,   \* per week-start: invocations of assignWeeklyQuests
  hStreakRuns,    \* per date: applications of the streak rule by calls for that date
  lastCall,       \* the ensureRollover call that completed last
  lastOp          \* the last scoring call and what it returned, the last failed write,
                  \* the last habit button handled (complete: its log was complete), the
                  \* last toggle or view, or the last upsertDaySummary that returned
                  \* (complete: it was issued while another was in flight)

vars == << clock, tzOffset, settings, meta, tasks, habits, habitLogs, events,
           questLibrary, assignedQuests, daySummaries, db, pc, loc, turn, nextUid,
           hist, hDailyCalls, hWeeklyCalls, hStreakRuns, lastCall, lastOp >>

(* --------------------------- clock and dates --------------------------- *)

Min(a, b) == IF a < b THEN a ELSE b
Max(a, b) == IF a > b THEN a ELSE b
clamp(n, lo, hi) == Max(lo, Min(hi, n))

\* todayStr(): the local calendar date of an instant
todayStr(t) == t \div TicksPerDay
Today == todayStr(clock)

\* new Date('YYYY-MM-DD'): a date-only string is UTC midnight; the local
\* calendar day that instant falls on
UtcParseLocalDay(d) == (d * HoursPerDay + tzOffset) \div HoursPerDay

\* Date.getDay() of a local calendar day, 0 = Sun .. 6 = Sat
getDay(d) == (d + EpochWeekday) % 7
\* the weekday of the calendar date itself
TrueWeekday(d) == weekdays[getDay(d) + 1]
\* weekdays[new Date(dateStr).getDay()]
WeekdayOfDateStr(d) == weekdays[getDay(UtcParseLocalDay(d)) + 1]

\* startOfWeek(date, weekStart) for a date on local calendar day d
startOfWeek(d, weekStart) ==
  LET day == getDay(d)
      shift == IF weekStart = "Mon" THEN (IF day = 0 THEN 6 ELSE day - 1) ELSE day
  IN  d - shift
\* weekOf(new Date(dateStr), weekStart)
weekOfDateStr(d, weekStart) == startOfWeek(UtcParseLocalDay(d), weekStart)

\* comp >= dateStart && comp <= dateEnd
InDateWindow(t, d) == t >= d * TicksPerDay /\ t <= d * TicksPerDay + (TicksPerDay - 1)

(* ------------------------------ scoring -------------------------------- *)

RECURSIVE SumSeq(_)
SumSeq(s) == IF s = <<>> THEN 0 ELSE Head(s) + SumSeq(Tail(s))

FindAll(arr, id) == { i \in 1 .. Len(arr) : arr[i].id = id }
FirstIdx(S) == CHOOSE i \in S : \A j \in S : i <= j

\* mutant: the due date is not looked at
TaskPts_IgnoreDue(t, d) ==
  IF t.completedAt = Null THEN 0
  ELSE IF ~InDateWindow(t.completedAt, d) THEN 0
  ELSE t.points

TaskPts(t, d) ==
  IF t.completedAt = Null THEN 0
  ELSE IF ~InDateWindow(t.completedAt, d) THEN 0
  ELSE IF t.dueDate # Null
       THEN (IF t.completedAt <= t.dueDate THEN t.points ELSE 0)
       ELSE t.points

TargetOr1(h) == IF h.target = 0 THEN 1 ELSE h.target

\* mutant: the count is not clamped to the target
HabitLogPts_NoClamp(S, log, d) ==
  LET hs == FindAll(S.habits, log.habitId) IN
  IF log.date # d THEN 0
  ELSE IF hs = {} THEN 0
  ELSE LET habit == S.habits[FirstIdx(hs)] IN
       IF WeekdayOfDateStr(d) \notin habit.schedule THEN 0
       ELSE IF habit.type = "binary"
            THEN (IF log.count >= 1 THEN habit.points ELSE 0)
            ELSE (log.count * habit.points) \div TargetOr1(habit)

\* S is the AppState the score is computed on
HabitLogPts(S, log, d) ==
  LET hs == FindAll(S.habits, log.habitId) IN
  IF log.date # d THEN 0
  ELSE IF hs = {} THEN 0
  ELSE LET habit == S.habits[FirstIdx(hs)] IN
       IF WeekdayOfDateStr(d) \notin habit.schedule THEN 0
       ELSE IF habit.type = "binary"
            THEN (IF log.count >= 1 THEN habit.points ELSE 0)
            ELSE (clamp(log.count, 0, TargetOr1(habit)) * habit.points) \div TargetOr1(habit)

EventPts(ev, d) ==
  IF ~ev.pointsEnabled \/ ev.completedAt = Null THEN 0
  ELSE IF InDateWindow(ev.completedAt, d) THEN ev.points ELSE 0

\* mutant: a quest whose library entry is gone scores the form's default points
QuestPts_DefaultBase(S, aq, d) ==
  IF aq.completedAt = Null THEN 0
  ELSE IF ~InDateWindow(aq.completedAt, d) THEN 0
  ELSE LET ls == FindAll(S.questLibrary, aq.libraryId) IN
       ((IF ls = {} THEN 10 ELSE S.questLibrary[FirstIdx(ls)].basePoints) * aq.multiplier10) \div 10

QuestPts(S, aq, d) ==
  IF aq.completedAt = Null THEN 0
  ELSE IF ~InDateWindow(aq.completedAt, d) THEN 0
  ELSE LET ls == FindAll(S.questLibrary, aq.libraryId) IN
       IF ls = {} THEN 0
       ELSE (S.questLibrary[FirstIdx(ls)].basePoints * aq.multiplier10) \div 10

\* computeDayTotals(dateStr) on AppState S
computeDayTotalsIn(S, d) ==
  LET total ==
        SumSeq([i \in 1 .. Len(S.tasks) |-> TaskPts(S.tasks[i], d)])
        + SumSeq([i \in 1 .. Len(S.habitLogs) |-> HabitLogPts(S, S.habitLogs[i], d)])
        + SumSeq([i \in 1 .. Len(S.events) |-> EventPts(S.events[i], d)])
        + SumSeq([i \in 1 .. Len(S.assignedQuests) |-> QuestPts(S, S.assignedQuests[i], d)])
  IN  [ date |-> d, totalPoints |-> total, goalMet |-> total >= S.settings.dailyGoal ]

AppState ==
  [ settings |-> settings, tasks |-> tasks, habits |-> habits, habitLogs |-> habitLogs,
    events |-> events, questLibrary |-> questLibrary, assignedQuests |-> assignedQuests ]

computeDayTotals(d) == computeDayTotalsIn(AppState, d)

allScheduledHabitsComplete(d) ==
  LET weekday == WeekdayOfDateStr(d)
      todays == { i \in 1 .. Len(habits) : weekday \in habits[i].schedule }
      logsOf(h) == { j \in 1 .. Len(habitLogs) :
                       habitLogs[j].habitId = h.id /\ habitLogs[j].date = d }
      ok(h) == /\ logsOf(h) # {}
               /\ LET log == habitLogs[FirstIdx(logsOf(h))] IN
                  IF h.type = "binary" THEN log.count >= 1
                  ELSE log.count >= TargetOr1(h)
  IN  \A i \in todays : ok(habits[i])

\* AppState.daySummaries after upsertDaySummary's findIndex / replace / push
UpsertInMemory(sums, sum) ==
  LET is == { i \in 1 .. Len(sums) : sums[i].date = sum.date } IN
  IF is # {} THEN [sums EXCEPT ![FirstIdx(is)] = sum] ELSE Append(sums, sum)

\* an object store keyed by `key`: put replaces the record of the same key
PutDate(store, rec) == { r \in store : r.date # rec.date } \cup {rec}

(* ----------------------------- assignment ------------------------------ *)

Swap(a, i, j) == [a EXCEPT ![i] = a[j], ![j] = a[i]]

\* the Fisher-Yates loop from position i down: every array Math.random can produce
RECURSIVE ShuffleFrom(_, _)
ShuffleFrom(a, i) ==
  IF i <= 1 THEN {a}
  ELSE UNION { ShuffleFrom(Swap(a, i, j), i - 1) : j \in 1 .. i }

\* mutant: every position drawn independently, without the shuffle
randomSample_Repeat(arr, n) ==
  IF arr = <<>> THEN { <<>> }
  ELSE { [ i \in 1 .. Min(n, Len(arr)) |-> arr[f[i]] ] :
           f \in [ 1 .. Min(n, Len(arr)) -> 1 .. Len(arr) ] }

randomSample(arr, n) == { SubSeq(a, 1, Min(n, Len(a))) : a \in ShuffleFrom(arr, Len(arr)) }

ActivePool == SelectSeq(questLibrary, LAMBDA q : q.active)

\* mutant: range mode without the "+ weeklyQuestMin"
WeeklyCounts_NoMin ==
  IF settings.weeklyQuestMode = "range"
  THEN 0 .. Max(0, settings.weeklyQuestMax - settings.weeklyQuestMin)
  ELSE { settings.weeklyQuestCount }

\* the counts assignWeeklyQuests may draw
WeeklyCounts ==
  IF settings.weeklyQuestMode = "range"
  THEN LET k == settings.weeklyQuestMax - settings.weeklyQuestMin + 1 IN
       { Max(0, f + settings.weeklyQuestMin) : f \in (IF k >= 1 THEN 0 .. (k - 1) ELSE k .. 0) }
  ELSE { settings.weeklyQuestCount }

DailyRecords(chosen, d) ==
  [ i \in 1 .. Len(chosen) |->
      [ id |-> nextUid + i - 1, libraryId |-> chosen[i].id, type |-> "daily",
        date |-> d, weekOf |-> Null, multiplier10 |-> 10, completedAt |-> Null ] ]

WeeklyRecords(chosen, w) ==
  [ i \in 1 .. Len(chosen) |->
      [ id |-> nextUid + i - 1, libraryId |-> chosen[i].id, type |-> "weekly",
        date |-> Null, weekOf |-> w, multiplier10 |-> settings.weeklyFactor10,
        completedAt |-> Null ] ]

SeqToSet(s) == { s[i] : i \in 1 .. Len(s) }

(* ------------------------------- state --------------------------------- *)

NoSum == [ date |-> Null, totalPoints |-> 0, goalMet |-> FALSE ]
\* no habit held
NoHabit == [ id |-> "none", type |-> "binary", target |-> 1, points |-> 0, schedule |-> {} ]
LocInit ==
  [ today |-> Null, prev |-> Null, sum |-> NoSum, created |-> <<>>,
    week |-> Null, weekly |-> FALSE, snap |-> DefaultMeta,
    \* a habit handler: the habit object it holds (`h`), the button clicked and, in
    \* deleteHabit, the ids of the logs to remove (`rm`)
    habit |-> NoHabit, op |-> "none", rm |-> {},
    \* an upsertDaySummary call: the place of its write among the writes in flight
    pos |-> 0 ]
\* what a call has done: the branch it took, the lifecycle record and the assigned
\* quests it started from, the records it wrote, the assigned quests it added and
\* the dates it applied the streak rule to
HistInit ==
  [ branch |-> "none", meta0 |-> DefaultMeta, aq0 |-> <<>>, writes |-> <<>>,
    added |-> 0, streakFor |-> <<>> ]
WeekStarts == (FirstDay - 7) .. LastDay
\* nothing has been called yet
NoCall == [ op |-> "none", date |-> Null, value |-> NoSum, complete |-> FALSE ]

Init ==
  \* the application is installed and first opened on some day
  /\ clock \in { d * TicksPerDay : d \in Days }
  /\ tzOffset \in TzOffsets
  /\ settings = DefaultSettings
  /\ meta = DefaultMeta
  /\ tasks = <<>> /\ habits = <<>> /\ habitLogs = <<>> /\ events = <<>>
  /\ questLibrary = <<>> /\ assignedQuests = <<>> /\ daySummaries = <<>>
  /\ db = [ settings |-> DefaultSettings, meta |-> DefaultMeta, tasks |-> {},
            habits |-> {}, habitLogs |-> {}, events |-> {}, questLibrary |-> {},
            assignedQuests |-> {}, daySummaries |-> {},
            cache |-> Precached ]
  /\ pc = [ p \in Procs |-> IF p = "boot" THEN "ready" ELSE "idle" ]
  /\ loc = [ p \in Procs |-> LocInit ]
  /\ turn = "none"
  /\ nextUid = 1
  /\ hist = [ p \in Callers |-> HistInit ]
  /\ hDailyCalls = [ d \in Days |-> 0 ]
  /\ hWeeklyCalls = [ w \in WeekStarts |-> 0 ]
  /\ hStreakRuns = [ d \in Days |-> 0 ]
  /\ lastCall = [ today |-> Null, meta |-> DefaultMeta, aqIds |-> {} ]
  /\ lastOp = NoCall

entityVars == << tasks, habits, habitLogs, events, questLibrary >>
histVars == << hDailyCalls, hWeeklyCalls, hStreakRuns, lastCall, lastOp >>

\* boot() registers the timer, the visibility listener and the click handlers
\* only after its own ensureRollover() has returned
BootDone == pc["boot"] = "finished"
Wrote(p, store, key) ==
  hist' = [hist EXCEPT ![p].writes = Append(@, <<store, key>>)]

(* ------------------------------ the clock ------------------------------ *)

\* time passes while no callback runs: the date changes, by one day or (the
\* application in the background) by several
Tick ==
  /\ turn = "none"
  /\ \E d \in (Today + 1) .. LastDay : clock' = d * TicksPerDay
  /\ UNCHANGED << tzOffset, settings, meta, entityVars, assignedQuests, daySummaries,
                  db, pc, loc, turn, nextUid, hist, histVars >>

(* ---------------------------- ensureRollover --------------------------- *)

\* the state of the controller (lines 328, 342, 372)
RolloverBranch_NoSameDay(m, today) ==
  IF m.lastAssignmentRun = Null THEN "first" ELSE "changed"

RolloverBranch(m, today) ==
  IF m.lastAssignmentRun = Null THEN "first"
  ELSE IF m.lastAssignmentRun # today THEN "changed"
  ELSE "same"

StreakRule_GoalOnly(m, goalMet, habitsOk) ==
  IF goalMet
  THEN [m EXCEPT !.streak = m.streak + 1,
                 !.bestStreak = IF m.streak + 1 > m.bestStreak THEN m.streak + 1 ELSE @]
  ELSE [m EXCEPT !.streak = 0]

\* mutant: a missed day also clears the best streak
StreakRule_ClearsBest(m, goalMet, habitsOk) ==
  IF goalMet /\ habitsOk
  THEN [m EXCEPT !.streak = m.streak + 1,
                 !.bestStreak = IF m.streak + 1 > m.bestStreak THEN m.streak + 1 ELSE @]
  ELSE [m EXCEPT !.streak = 0, !.bestStreak = 0]

StreakRule(m, goalMet, habitsOk) ==
  IF goalMet /\ habitsOk
  THEN [m EXCEPT !.streak = m.streak + 1,
                 !.bestStreak = IF m.streak + 1 > m.bestStreak THEN m.streak + 1 ELSE @]
  ELSE [m EXCEPT !.streak = 0]

\* the day a DayChanged rollover finalizes (line 343)
PrevDate_Yesterday(m, today) == today - 1

PrevDate(m, today) == m.lastAssignmentRun

\* mutant: the summary already cached for the date is used when there is one
PrevSummary_Cached(prev) ==
  IF \E i \in 1 .. Len(daySummaries) : daySummaries[i].date = prev
  THEN daySummaries[CHOOSE i \in 1 .. Len(daySummaries) : daySummaries[i].date = prev]
  ELSE computeDayTotals(prev)

\* the `sum` of upsertDaySummary(prev): computed from the entities in memory (line 243)
PrevSummary(prev) == computeDayTotals(prev)

\* mutant: the test of the timer callback inverted
TimerDue_Inverted == Today = meta.lastAssignmentRun

\* the timer callback's test `t !== AppState.meta.lastAssignmentRun` (line 1541)
TimerDue == Today # meta.lastAssignmentRun

\* ensureRollover() up to its first storage await (lines 323-345, 372-374)
ER_Enter(p) ==
  /\ pc[p] = (IF p = "boot" THEN "ready" ELSE "idle")
  /\ turn = "none"
  /\ p # "boot" => BootDone
  \* the timer callback calls ensureRollover only when the date differs (line 1541)
  /\ p = "timer" => TimerDue
  /\ LET today == Today
         branch == RolloverBranch(meta, today) IN
     /\ hist' = [hist EXCEPT ![p] = [HistInit EXCEPT !.branch = branch, !.meta0 = meta,
                                                     !.aq0 = assignedQuests]]
     /\ CASE branch = "first" ->
               /\ pc' = [pc EXCEPT ![p] = "fr_daily"]
               /\ loc' = [loc EXCEPT ![p].today = today]
               /\ turn' = p
          [] branch = "changed" ->
               /\ pc' = [pc EXCEPT ![p] = "dc_prev_wait"]
               /\ loc' = [loc EXCEPT ![p].today = today,
                                     ![p].prev = PrevDate(meta, today),
                                     ![p].sum = PrevSummary(PrevDate(meta, today))]
               /\ turn' = "none"
          [] OTHER ->
               /\ pc' = [pc EXCEPT ![p] = "sd_wait"]
               /\ loc' = [loc EXCEPT ![p].today = today, ![p].sum = computeDayTotals(today)]
               /\ turn' = "none"
  /\ UNCHANGED << clock, tzOffset, settings, meta, entityVars, assignedQuests,
                  daySummaries, db, nextUid, histVars >>

\* the timer callback on an unchanged date: upsertDaySummary(t) (lines 1545-1547)
TimerRefresh ==
  /\ pc["timer"] = "idle" /\ turn = "none" /\ BootDone
  /\ Today = meta.lastAssignmentRun
  /\ pc' = [pc EXCEPT !["timer"] = "tr_wait"]
  /\ loc' = [loc EXCEPT !["timer"].today = Today, !["timer"].sum = computeDayTotals(Today)]
  /\ hist' = [hist EXCEPT !["timer"] = [HistInit EXCEPT !.branch = "refresh", !.meta0 = meta,
                                                           !.aq0 = assignedQuests]]
  /\ UNCHANGED << clock, tzOffset, settings, meta, entityVars, assignedQuests,
                  daySummaries, db, turn, nextUid, histVars >>

\* assignDailyQuests(today) up to its bulkPut (lines 277-293)
AssignDaily_Begin(p) ==
  /\ pc[p] \in {"fr_daily", "dc_daily"} /\ turn = p
  /\ LET N == settings.dailyQuestCount
         pool == ActivePool IN
     \E chosen \in randomSample(pool, Min(N, Len(pool))) :
        LET created == DailyRecords(chosen, loc[p].today) IN
        /\ loc' = [loc EXCEPT ![p].created = created]
        /\ nextUid' = nextUid + Len(created)
        /\ IF created # <<>>
           THEN /\ pc' = [pc EXCEPT ![p] = IF pc[p] = "fr_daily" THEN "fr_daily_wait"
                                            ELSE "dc_daily_wait"]
                /\ turn' = "none"
           ELSE /\ pc' = [pc EXCEPT ![p] = IF pc[p] = "fr_daily" THEN "fr_weekly" ELSE "dc_today"]
                /\ turn' = p
  /\ hDailyCalls' = [hDailyCalls EXCEPT ![loc[p].today] = @ + 1]
  /\ UNCHANGED << clock, tzOffset, settings, meta, entityVars, assignedQuests,
                  daySummaries, db, hist, hWeeklyCalls, hStreakRuns, lastCall, lastOp >>

\* mutant: the new daily batch replaces the daily quests of earlier dates
AssignDaily_Ack_Replace(p) ==
  /\ pc[p] \in {"fr_daily_wait", "dc_daily_wait"} /\ turn = "none"
  /\ db' = [db EXCEPT !.assignedQuests =
                        { r \in @ : r.type # "daily" } \cup SeqToSet(loc[p].created)]
  /\ assignedQuests' = SelectSeq(assignedQuests, LAMBDA a : a.type # "daily") \o loc[p].created
  /\ hist' = [hist EXCEPT ![p].writes = Append(@, <<"assignedQuests", loc[p].today>>),
                          ![p].added = @ + Len(loc[p].created)]
  /\ pc' = [pc EXCEPT ![p] = IF pc[p] = "fr_daily_wait" THEN "fr_weekly" ELSE "dc_today"]
  /\ loc' = [loc EXCEPT ![p].created = <<>>]
  /\ turn' = p
  /\ UNCHANGED << clock, tzOffset, settings, meta, entityVars, daySummaries, nextUid,
                  histVars >>

\* bulkPut acknowledged: AppState.assignedQuests.push(...created) (lines 293-294)
AssignDaily_Ack(p) ==
  /\ pc[p] \in {"fr_daily_wait", "dc_daily_wait"} /\ turn = "none"
  /\ db' = [db EXCEPT !.assignedQuests = @ \cup SeqToSet(loc[p].created)]
  /\ assignedQuests' = assignedQuests \o loc[p].created
  /\ hist' = [hist EXCEPT ![p].writes = Append(@, <<"assignedQuests", loc[p].today>>),
                          ![p].added = @ + Len(loc[p].created)]
  /\ pc' = [pc EXCEPT ![p] = IF pc[p] = "fr_daily_wait" THEN "fr_weekly" ELSE "dc_today"]
  /\ loc' = [loc EXCEPT ![p].created = <<>>]
  /\ turn' = p
  /\ UNCHANGED << clock, tzOffset, settings, meta, entityVars, daySummaries, nextUid,
                  histVars >>

\* assignWeeklyQuests(ws) up to its bulkPut (lines 331-332, 365, 299-315)
AssignWeekly_Begin(p) ==
  /\ pc[p] \in {"fr_weekly", "dc_weekly"} /\ turn = p
  /\ LET ws == IF pc[p] = "fr_weekly" THEN weekOfDateStr(loc[p].today, settings.weekStart)
               ELSE loc[p].week
         pool == ActivePool IN
     \E count \in WeeklyCounts :
     \E chosen \in randomSample(pool, Min(count, Len(pool))) :
        LET created == WeeklyRecords(chosen, ws) IN
        /\ loc' = [loc EXCEPT ![p].created = created, ![p].week = ws]
        /\ nextUid' = nextUid + Len(created)
        /\ hWeeklyCalls' = [hWeeklyCalls EXCEPT ![ws] = @ + 1]
        /\ IF created # <<>>
           THEN /\ pc' = [pc EXCEPT ![p] = IF pc[p] = "fr_weekly" THEN "fr_weekly_wait"
                                            ELSE "dc_weekly_wait"]
                /\ turn' = "none"
           ELSE /\ pc' = [pc EXCEPT ![p] = IF pc[p] = "fr_weekly" THEN "fr_meta" ELSE "dc_meta"]
                /\ turn' = p
  /\ UNCHANGED << clock, tzOffset, settings, meta, entityVars, assignedQuests,
                  daySummaries, db, hist, hDailyCalls, hStreakRuns, lastCall, lastOp >>

\* bulkPut acknowledged (lines 315-316)
AssignWeekly_Ack(p) ==
  /\ pc[p] \in {"fr_weekly_wait", "dc_weekly_wait"} /\ turn = "none"
  /\ db' = [db EXCEPT !.assignedQuests = @ \cup SeqToSet(loc[p].created)]
  /\ assignedQuests' = assignedQuests \o loc[p].created
  /\ hist' = [hist EXCEPT ![p].writes = Append(@, <<"assignedQuests", loc[p].week>>),
                          ![p].added = @ + Len(loc[p].created)]
  /\ pc' = [pc EXCEPT ![p] = IF pc[p] = "fr_weekly_wait" THEN "fr_meta" ELSE "dc_meta"]
  /\ loc' = [loc EXCEPT ![p].created = <<>>]
  /\ turn' = p
  /\ UNCHANGED << clock, tzOffset, settings, meta, entityVars, daySummaries, nextUid,
                  histVars >>

\* first run: the lifecycle record is set and its write issued (lines 333-335)
FR_SetMeta(p) ==
  /\ pc[p] = "fr_meta" /\ turn = p
  /\ meta' = [meta EXCEPT !.lastAssignmentRun = loc[p].today, !.lastWeekStart = loc[p].week]
  /\ loc' = [loc EXCEPT ![p].snap = meta']
  /\ pc' = [pc EXCEPT ![p] = "fr_meta_wait"]
  /\ turn' = "none"
  /\ UNCHANGED << clock, tzOffset, settings, entityVars, assignedQuests, daySummaries,
                  db, nextUid, hist, histVars >>

\* first run: meta write acknowledged, upsertDaySummary(today) issued (lines 335-337)
FR_MetaAck(p) ==
  /\ pc[p] = "fr_meta_wait" /\ turn = "none"
  /\ db' = [db EXCEPT !.meta = loc[p].snap]
  /\ Wrote(p, "meta", Null)
  /\ loc' = [loc EXCEPT ![p].sum = computeDayTotals(loc[p].today)]
  /\ pc' = [pc EXCEPT ![p] = "fr_sum_wait"]
  /\ UNCHANGED << clock, tzOffset, settings, meta, entityVars, assignedQuests,
                  daySummaries, turn, nextUid, histVars >>

\* mutant: the refresh also rewrites the lifecycle record
Sum_Ack_WritesMeta(p) ==
  /\ pc[p] \in {"fr_sum_wait", "sd_wait", "tr_wait"} /\ turn = "none"
  /\ db' = [db EXCEPT !.daySummaries = PutDate(@, loc[p].sum), !.meta = meta]
  /\ daySummaries' = UpsertInMemory(daySummaries, loc[p].sum)
  /\ hist' = [hist EXCEPT ![p].writes = @ \o << <<"daySummaries", loc[p].sum.date>>,
                                                 <<"meta", Null>> >>]
  /\ pc' = [pc EXCEPT ![p] = "done"]
  /\ turn' = p
  /\ UNCHANGED << clock, tzOffset, settings, meta, entityVars, assignedQuests, loc,
                  nextUid, histVars >>

\* the last upsertDaySummary of a call acknowledged (lines 244-247; 337-338, 374, 1546)
Sum_Ack(p) ==
  /\ pc[p] \in {"fr_sum_wait", "sd_wait", "tr_wait"} /\ turn = "none"
  /\ db' = [db EXCEPT !.daySummaries = PutDate(@, loc[p].sum)]
  /\ daySummaries' = UpsertInMemory(daySummaries, loc[p].sum)
  /\ Wrote(p, "daySummaries", loc[p].sum.date)
  /\ pc' = [pc EXCEPT ![p] = "done"]
  /\ turn' = p
  /\ UNCHANGED << clock, tzOffset, settings, meta, entityVars, assignedQuests, loc,
                  nextUid, histVars >>

\* day changed: the previous day's summary is stored and the streak rule applied
\* (lines 345-353)
DC_PrevAck(p) ==
  /\ pc[p] = "dc_prev_wait" /\ turn = "none"
  /\ db' = [db EXCEPT !.daySummaries = PutDate(@, loc[p].sum)]
  /\ daySummaries' = UpsertInMemory(daySummaries, loc[p].sum)
  /\ meta' = StreakRule(meta, loc[p].sum.goalMet, allScheduledHabitsComplete(loc[p].prev))
  /\ hist' = [hist EXCEPT ![p].writes = Append(@, <<"daySummaries", loc[p].sum.date>>),
                          ![p].streakFor = Append(@, loc[p].prev)]
  /\ hStreakRuns' = [hStreakRuns EXCEPT ![loc[p].today] = @ + 1]
  /\ pc' = [pc EXCEPT ![p] = "dc_daily"]
  /\ turn' = p
  /\ UNCHANGED << clock, tzOffset, settings, entityVars, assignedQuests, loc, nextUid,
                  hDailyCalls, hWeeklyCalls, lastCall, lastOp >>

\* day changed: upsertDaySummary(today) issued (line 359)
DC_TodaySum(p) ==
  /\ pc[p] = "dc_today" /\ turn = p
  /\ loc' = [loc EXCEPT ![p].sum = computeDayTotals(loc[p].today)]
  /\ pc' = [pc EXCEPT ![p] = "dc_today_wait"]
  /\ turn' = "none"
  /\ UNCHANGED << clock, tzOffset, settings, meta, entityVars, assignedQuests,
                  daySummaries, db, nextUid, hist, histVars >>

WeeklyDue(m, prev, today, weekStart) ==
  LET lastWeek == IF m.lastWeekStart # Null THEN m.lastWeekStart
                  ELSE weekOfDateStr(prev, weekStart)
      currentWeek == weekOfDateStr(today, weekStart)
  IN  currentWeek # lastWeek

\* day changed: today's summary stored, then the weekly check (lines 359-364)
DC_TodayAck(p) ==
  /\ pc[p] = "dc_today_wait" /\ turn = "none"
  /\ db' = [db EXCEPT !.daySummaries = PutDate(@, loc[p].sum)]
  /\ daySummaries' = UpsertInMemory(daySummaries, loc[p].sum)
  /\ Wrote(p, "daySummaries", loc[p].sum.date)
  /\ IF WeeklyDue(meta, loc[p].prev, loc[p].today, settings.weekStart)
     THEN /\ pc' = [pc EXCEPT ![p] = "dc_weekly"]
          /\ loc' = [loc EXCEPT ![p].week = weekOfDateStr(loc[p].today, settings.weekStart),
                                ![p].weekly = TRUE]
     ELSE /\ pc' = [pc EXCEPT ![p] = "dc_meta"]
          /\ loc' = loc
  /\ turn' = p
  /\ UNCHANGED << clock, tzOffset, settings, meta, entityVars, assignedQuests, nextUid,
                  histVars >>

\* mutant: line 369 (meta.lastAssignmentRun = today) is missing
DC_SetMeta_NoRun(p) ==
  /\ pc[p] = "dc_meta" /\ turn = p
  /\ meta' = [meta EXCEPT !.lastWeekStart = IF loc[p].weekly THEN loc[p].week ELSE @]
  /\ loc' = [loc EXCEPT ![p].snap = meta']
  /\ pc' = [pc EXCEPT ![p] = "dc_meta_wait"]
  /\ turn' = "none"
  /\ UNCHANGED << clock, tzOffset, settings, entityVars, assignedQuests, daySummaries,
                  db, nextUid, hist, histVars >>

\* day changed: lastWeekStart / lastAssignmentRun set, meta write issued (lines 366-370)
DC_SetMeta(p) ==
  /\ pc[p] = "dc_meta" /\ turn = p
  /\ meta' = [meta EXCEPT !.lastWeekStart = IF loc[p].weekly THEN loc[p].week ELSE @,
                          !.lastAssignmentRun = loc[p].today]
  /\ loc' = [loc EXCEPT ![p].snap = meta']
  /\ pc' = [pc EXCEPT ![p] = "dc_meta_wait"]
  /\ turn' = "none"
  /\ UNCHANGED << clock, tzOffset, settings, entityVars, assignedQuests, daySummaries,
                  db, nextUid, hist, histVars >>

\* day changed: meta write acknowledged (lines 370-371)
DC_MetaAck(p) ==
  /\ pc[p] = "dc_meta_wait" /\ turn = "none"
  /\ db' = [db EXCEPT !.meta = loc[p].snap]
  /\ Wrote(p, "meta", Null)
  /\ pc' = [pc EXCEPT ![p] = "done"]
  /\ turn' = p
  /\ UNCHANGED << clock, tzOffset, settings, meta, entityVars, assignedQuests,
                  daySummaries, loc, nextUid, histVars >>

\* the positions at which a call of the timer or the visibility listener waits
\* for a storage write
WaitingForWrite ==
  { "dc_prev_wait", "dc_daily_wait", "dc_today_wait", "dc_weekly_wait", "dc_meta_wait",
    "sd_wait" }

\* the awaited write rejects: ensureRollover throws at that await, the callback
\* ends, and what the call had assigned in memory stays (lines 345-370); the
\* store rejects at most one write per date, which keeps the streak finite
ER_Fail(p) ==
  /\ p \in {"timer", "vis"}
  /\ pc[p] \in WaitingForWrite /\ turn = "none"
  /\ lastOp.date # loc[p].today
  /\ pc' = [pc EXCEPT ![p] = "idle"]
  /\ loc' = [loc EXCEPT ![p] = LocInit]
  /\ hist' = [hist EXCEPT ![p] = HistInit]
  /\ lastOp' = [NoCall EXCEPT !.op = IF hist[p].branch = "changed" THEN "rollover_failed"
                                     ELSE "refresh_failed",
                              !.date = loc[p].today]
  /\ UNCHANGED << clock, tzOffset, settings, meta, entityVars, assignedQuests,
                  daySummaries, db, turn, nextUid, hDailyCalls, hWeeklyCalls,
                  hStreakRuns, lastCall >>

\* the call returns to boot() / the timer callback / the visibility listener
\* (lines 167-172, 1543-1544, 1547, 1555)
Return(p) ==
  /\ pc[p] = "done" /\ turn = p
  /\ pc' = [pc EXCEPT ![p] = IF p = "boot" THEN "finished" ELSE "idle"]
  /\ loc' = [loc EXCEPT ![p] = LocInit]
  /\ hist' = [hist EXCEPT ![p] = HistInit]
  /\ lastCall' = IF hist[p].branch = "refresh" THEN lastCall
                 ELSE [ today |-> loc[p].today, meta |-> meta,
                        aqIds |-> { assignedQuests[i].id : i \in 1 .. Len(assignedQuests) } ]
  /\ turn' = "none"
  /\ UNCHANGED << clock, tzOffset, settings, meta, entityVars, assignedQuests,
                  daySummaries, db, nextUid, hDailyCalls, hWeeklyCalls, hStreakRuns, lastOp >>

(* ---------------------------- user handlers ---------------------------- *)
(* Each handler is one action: its in-memory change, its storage writes and *)
(* its closing upsertDaySummary(todayStr()).                                *)

UserIdle == turn = "none" /\ BootDone
callVars == << pc, loc, turn, nextUid, hist, histVars >>

\* db.set(store, obj) for the records the handler made or changed: put replaces
\* the record of the same id
PutChanged(store, old, new) ==
  LET changed == SeqToSet(new) \ SeqToSet(old) IN
  { r \in store : r.id \notin { c.id : c \in changed } } \cup changed

\* the stores after the handler's writes, S being the AppState it leaves
StoresOf(S) ==
  [db EXCEPT !.tasks = PutChanged(@, tasks, S.tasks),
             !.habits = PutChanged(@, habits, S.habits),
             !.habitLogs = PutChanged(@, habitLogs, S.habitLogs),
             !.questLibrary = PutChanged(@, questLibrary, S.questLibrary)]

\* the handler's closing upsertDaySummary(todayStr()) (lines 242-248)
UpsertDone(S) ==
  LET sum == computeDayTotalsIn(S, Today) IN
  /\ daySummaries' = UpsertInMemory(daySummaries, sum)
  /\ db' = [StoresOf(S) EXCEPT !.daySummaries = PutDate(@, sum)]

\* a create handler writes and pushes the entity; no summary is written
CreateDone(S) ==
  /\ daySummaries' = daySummaries
  /\ db' = StoresOf(S)

\* the quest form's submit handler, new entry (lines 1410-1423)
CreateQuest ==
  /\ UserIdle
  /\ \E id \in LibIds \ { questLibrary[i].id : i \in 1 .. Len(questLibrary) } :
     \E pts \in QuestPointChoices, active \in ActiveChoices :
       LET lib == Append(questLibrary, [ id |-> id, basePoints |-> pts, active |-> active ]) IN
       /\ questLibrary' = lib
       /\ CreateDone([AppState EXCEPT !.questLibrary = lib])
  /\ UNCHANGED << clock, tzOffset, settings, meta, tasks, habits, habitLogs, events,
                  assignedQuests, callVars >>

\* the task form's submit handler, new task (lines 1233-1251)
CreateTask ==
  /\ UserIdle
  /\ \E id \in TaskIds \ { tasks[i].id : i \in 1 .. Len(tasks) } :
     \E pts \in TaskPointChoices, due \in DueChoices :
       LET ts == Append(tasks, [ id |-> id, points |-> pts,
                                 dueDate |-> IF due = "none" THEN Null ELSE clock,
                                 completedAt |-> Null ]) IN
       /\ tasks' = ts
       /\ CreateDone([AppState EXCEPT !.tasks = ts])
  /\ UNCHANGED << clock, tzOffset, settings, meta, habits, habitLogs, events,
                  questLibrary, assignedQuests, callVars >>

\* the habit form's submit handler, new habit (lines 1311-1330)
CreateHabit ==
  /\ UserIdle
  /\ \E id \in HabitIds \ { habits[i].id : i \in 1 .. Len(habits) } :
     \E pts \in HabitPointChoices, sched \in ScheduleChoices :
       LET hs == Append(habits, [ id |-> id, type |-> "binary", target |-> 3,
                                  points |-> pts, schedule |-> sched ]) IN
       /\ habits' = hs
       /\ CreateDone([AppState EXCEPT !.habits = hs])
  /\ UNCHANGED << clock, tzOffset, settings, meta, tasks, habitLogs, events,
                  questLibrary, assignedQuests, callVars >>

\* what a handler leaves alone of the callbacks' state
handlerFrame == << pc, loc, turn, nextUid, hist, hDailyCalls, hWeeklyCalls, hStreakRuns,
                   lastCall >>

\* toggleTask(id) for the task at index i (lines 1262-1269)
ToggleTaskAt(i) ==
  LET ts == [tasks EXCEPT ![i].completedAt = IF @ # Null THEN Null ELSE clock] IN
  /\ tasks' = ts
  /\ UpsertDone([AppState EXCEPT !.tasks = ts])
  /\ UNCHANGED << clock, tzOffset, settings, meta, habits, habitLogs, events,
                  questLibrary, assignedQuests, handlerFrame >>

ToggleTask ==
  /\ UserIdle
  /\ \E i \in 1 .. Len(tasks) : ToggleTaskAt(i)
  /\ UNCHANGED lastOp

\* the binary toggle itself (lines 1356-1357)
ToggledLog(log) ==
  LET c == IF log.count >= 1 THEN 0 ELSE 1 IN
  [log EXCEPT !.count = c, !.completedAt = IF c >= 1 THEN clock ELSE Null]

\* getOrCreateHabitLog(habitId, dateStr) (lines 1342-1350): the logs after it, and
\* the index of the log it returns
LogsWith(habitId, d) ==
  LET ls == { j \in 1 .. Len(habitLogs) :
                habitLogs[j].habitId = habitId /\ habitLogs[j].date = d } IN
  IF ls # {} THEN habitLogs
  ELSE Append(habitLogs, [ id |-> <<habitId, d>>, habitId |-> habitId, date |-> d,
                           count |-> 0, completedAt |-> Null ])
LogIdx(logs, habitId, d) ==
  FirstIdx({ j \in 1 .. Len(logs) : logs[j].habitId = habitId /\ logs[j].date = d })

\* toggleHabitBinary(id) (lines 1352-1361)
ToggleHabitBinary ==
  /\ UserIdle
  /\ \E k \in 1 .. Len(habits) :
       LET h == habits[k]
           logs == LogsWith(h.id, Today)
           hl == [logs EXCEPT ![LogIdx(logs, h.id, Today)] = ToggledLog(@)] IN
       \* the button is rendered for the habits scheduled today (lines 533-535, 554)
       /\ TrueWeekday(Today) \in h.schedule
       /\ h.type = "binary"
       /\ habitLogs' = hl
       /\ UpsertDone([AppState EXCEPT !.habitLogs = hl])
  /\ UNCHANGED << clock, tzOffset, settings, meta, tasks, habits, events, questLibrary,
                  assignedQuests, callVars >>

\* toggleTask(id) when its db.set rejects (lines 1262-1266): completedAt has been
\* assigned, the store keeps the old record, the exception reaches the click
\* handler's catch (lines 1168-1171) and no summary is written
ToggleTaskFails ==
  /\ UserIdle
  /\ \E i \in 1 .. Len(tasks) :
       tasks' = [tasks EXCEPT ![i].completedAt = IF @ # Null THEN Null ELSE clock]
  /\ lastOp' = [NoCall EXCEPT !.op = "toggle_failed", !.date = Today]
  /\ UNCHANGED << clock, tzOffset, settings, meta, habits, habitLogs, events,
                  questLibrary, assignedQuests, daySummaries, db, pc, loc, turn,
                  nextUid, hist, hDailyCalls, hWeeklyCalls, hStreakRuns, lastCall >>

\* deleteTask(id) (lines 1256-1260): the record is deleted and filtered out; no
\* summary is written
DeleteTask ==
  /\ UserIdle
  /\ \E i \in 1 .. Len(tasks) :
       /\ tasks' = SelectSeq(tasks, LAMBDA t : t.id # tasks[i].id)
       /\ db' = [db EXCEPT !.tasks = { r \in @ : r.id # tasks[i].id }]
  /\ UNCHANGED << clock, tzOffset, settings, meta, habits, habitLogs, events,
                  questLibrary, assignedQuests, daySummaries, callVars >>

\* the home view offers the toggle for today's daily quests and this week's weekly
\* quests (lines 586-587, 622-623)
QuestOffered(a) ==
  \/ a.type = "daily" /\ a.date = Today
  \/ a.type = "weekly" /\ a.weekOf = startOfWeek(Today, settings.weekStart)

\* toggleAssignedQuest(id) for the quest at index i (lines 1437-1444)
ToggleAssignedQuestAt(i) ==
  LET aq == [assignedQuests EXCEPT ![i].completedAt = IF @ # Null THEN Null ELSE clock] IN
  /\ QuestOffered(assignedQuests[i])
  /\ assignedQuests' = aq
  /\ daySummaries' =
       UpsertInMemory(daySummaries,
                      computeDayTotalsIn([AppState EXCEPT !.assignedQuests = aq], Today))
  /\ db' = [db EXCEPT
             !.assignedQuests = { r \in @ : r.id # aq[i].id } \cup { aq[i] },
             !.daySummaries =
                PutDate(@, computeDayTotalsIn([AppState EXCEPT !.assignedQuests = aq],
                                              Today))]
  /\ UNCHANGED << clock, tzOffset, settings, meta, entityVars, handlerFrame >>

ToggleAssignedQuest ==
  /\ UserIdle
  /\ \E i \in 1 .. Len(assignedQuests) : ToggleAssignedQuestAt(i)
  /\ UNCHANGED lastOp

\* the events the user may create, and what the form's points switch is set to
EventIds == {"e1"}
EventPointChoices == {40}
PointsEnabledChoices == {TRUE, FALSE}

\* the event form's submit handler, new event (lines 1485-1506)
CreateEvent ==
  /\ UserIdle
  /\ \E id \in EventIds \ { events[i].id : i \in 1 .. Len(events) } :
     \E pts \in EventPointChoices, en \in PointsEnabledChoices :
       LET ev == [ id |-> id, pointsEnabled |-> en, points |-> pts, completedAt |-> Null ] IN
       /\ events' = Append(events, ev)
       /\ db' = [db EXCEPT !.events = @ \cup {ev}]
  /\ UNCHANGED << clock, tzOffset, settings, meta, tasks, habits, habitLogs,
                  questLibrary, assignedQuests, daySummaries, callVars >>

\* toggleEvent(id) for the event at index i (lines 1515-1522)
ToggleEventAt(i) ==
  IF ~events[i].pointsEnabled
  THEN \* line 1517: return
       UNCHANGED << clock, tzOffset, settings, meta, entityVars, assignedQuests,
                    daySummaries, db, handlerFrame >>
  ELSE LET es == [events EXCEPT ![i].completedAt = IF @ # Null THEN Null ELSE clock]
           sum == computeDayTotalsIn([AppState EXCEPT !.events = es], Today) IN
       /\ events' = es
       /\ daySummaries' = UpsertInMemory(daySummaries, sum)
       /\ db' = [db EXCEPT !.events = { r \in @ : r.id # es[i].id } \cup { es[i] },
                           !.daySummaries = PutDate(@, sum)]
       /\ UNCHANGED << clock, tzOffset, settings, meta, tasks, habits, habitLogs,
                       questLibrary, assignedQuests, handlerFrame >>

\* the values typed into the daily-goal input
GoalInputs == {50, 100}

\* the settings input handler, set-daily-goal (lines 1176-1190): the setting is
\* changed and stored; no summary is written
SetDailyGoal ==
  /\ UserIdle
  /\ \E g \in GoalInputs :
       /\ g # settings.dailyGoal
       /\ settings' = [settings EXCEPT !.dailyGoal = clamp(g, 0, 100000)]
  /\ db' = [db EXCEPT !.settings = settings']
  /\ UNCHANGED << clock, tzOffset, meta, entityVars, assignedQuests, daySummaries,
                  callVars >>

(* --------------------------- specifications ---------------------------- *)

RolloverStep(p) ==
  \/ AssignDaily_Begin(p) \/ AssignDaily_Ack(p)
  \/ AssignWeekly_Begin(p) \/ AssignWeekly_Ack(p)
  \/ FR_SetMeta(p) \/ FR_MetaAck(p) \/ Sum_Ack(p)
  \/ DC_PrevAck(p) \/ DC_TodaySum(p) \/ DC_TodayAck(p)
  \/ DC_SetMeta(p) \/ DC_MetaAck(p) \/ Return(p)

UserStep ==
  \/ CreateQuest \/ CreateTask \/ CreateHabit
  \/ ToggleTask \/ ToggleHabitBinary

\* no ensureRollover call is in flight
NoCallInFlight == \A q \in Callers : pc[q] \in {"ready", "idle", "finished"}

\* an ensureRollover call that starts only when no other is in flight
ER_EnterAlone(p) == NoCallInFlight /\ ER_Enter(p)

\* the callbacks as the browser schedules them: a second call may start while
\* another is suspended at a storage await
Next ==
  \/ NoCallInFlight /\ Tick
  \/ \E p \in Callers : ER_Enter(p) \/ RolloverStep(p)
  \/ NoCallInFlight /\ (CreateQuest \/ CreateTask \/ ToggleTask)

Spec == Init /\ [][Next]_vars

\* the same program with every ensureRollover call run to completion before the
\* next callback starts
NextSeq ==
  \/ NoCallInFlight /\ Tick
  \/ \E p \in Callers : ER_EnterAlone(p) \/ RolloverStep(p)
  \/ NoCallInFlight /\ TimerRefresh
  \/ NoCallInFlight /\ UserStep

SpecSeq == Init /\ [][NextSeq]_vars

\* the scheduling of the browser: boot() runs on load, the interval callback is run
\* again and again, and every storage request that was issued completes and its
\* continuation is run
Fairness ==
  /\ WF_vars(ER_Enter("boot"))
  /\ SF_vars(ER_Enter("timer"))
  /\ \A p \in Callers : SF_vars(RolloverStep(p))

\* the callbacks as the browser schedules them, the user adding quests in between
NextLive ==
  \/ NoCallInFlight /\ Tick
  \/ \E p \in Callers : ER_Enter(p) \/ RolloverStep(p)
  \/ NoCallInFlight /\ CreateQuest

SpecLive == Init /\ [][NextLive]_vars /\ Fairness

\* the task handlers and the daily-goal input, between rollovers that run to completion
NextUser ==
  \/ NoCallInFlight /\ Tick
  \/ \E p \in Callers : ER_EnterAlone(p) \/ RolloverStep(p)
  \/ NoCallInFlight /\ (CreateQuest \/ CreateTask \/ ToggleTask \/ ToggleTaskFails
                          \/ DeleteTask \/ SetDailyGoal)

SpecUser == Init /\ [][NextUser]_vars

\* overlapping rollovers, the user adding quests to the library and completing
\* assigned quests between them
NextQuests ==
  \/ NoCallInFlight /\ Tick
  \/ \E p \in Callers : ER_Enter(p) \/ RolloverStep(p)
  \/ NoCallInFlight /\ (CreateQuest \/ ToggleAssignedQuest)

SpecQuests == Init /\ [][NextQuests]_vars

\* the completion toggles of tasks, events and assigned quests
ToggleKinds == {"task", "event", "quest"}
ItemsOf(kind) ==
  IF kind = "task" THEN tasks ELSE IF kind = "event" THEN events ELSE assignedQuests
ToggleAt(kind, i) ==
  IF kind = "task" THEN ToggleTaskAt(i)
  ELSE IF kind = "event" THEN ToggleEventAt(i)
  ELSE ToggleAssignedQuestAt(i)

\* everything a handler can read or write
Snapshot ==
  << clock, settings, meta, tasks, habits, habitLogs, events, questLibrary,
     assignedQuests, daySummaries, db >>
\* the DaySummary records of the current date, in memory and in the store
TodaysSummaries ==
  << { daySummaries[j] : j \in { k \in 1 .. Len(daySummaries) : daySummaries[k].date = Today } },
     { r \in db.daySummaries : r.date = Today } >>

\* a completion toggle, recorded: it is the second of a pair when the toggle before
\* it was of the same item and nothing has happened since
TrackedToggle(kind, i) ==
  LET item == <<kind, ItemsOf(kind)[i].id>>
      second == lastOp.op = "toggle1" /\ lastOp.item = item /\ lastOp.after = Snapshot IN
  /\ ToggleAt(kind, i)
  /\ lastOp' =
       [ op |-> IF second THEN "toggle2" ELSE "toggle1",
         date |-> Today, value |-> NoSum,
         item |-> item,
         enabled |-> (kind = "event" => events[i].pointsEnabled),
         \* the item and the summaries before the first toggle of the pair
         wasComplete |-> IF second THEN lastOp.wasComplete
                         ELSE ItemsOf(kind)[i].completedAt # Null,
         before |-> IF second THEN lastOp.before ELSE TodaysSummaries,
         \* the state before this toggle
         prior |-> Snapshot,
         \* the item, the summaries and the state after this toggle
         complete |-> (IF kind = "task" THEN tasks'[i].completedAt
                       ELSE IF kind = "event" THEN events'[i].completedAt
                       ELSE assignedQuests'[i].completedAt) # Null,
         now |-> TodaysSummaries',
         after |-> Snapshot' ]

\* tasks and events the user keeps at a time while toggling
MaxItems == 1

\* the task, event and quest handlers between rollovers that run to completion
NextToggle ==
  \/ NoCallInFlight /\ Tick
  \/ \E p \in Callers : ER_EnterAlone(p) \/ RolloverStep(p)
  \/ NoCallInFlight /\ (CreateQuest \/ DeleteTask)
  \/ NoCallInFlight /\ Len(tasks) + Len(events) < MaxItems /\ (CreateTask \/ CreateEvent)
  \/ /\ NoCallInFlight /\ UserIdle
     /\ \E kind \in ToggleKinds : \E i \in 1 .. Len(ItemsOf(kind)) : TrackedToggle(kind, i)

SpecToggle == Init /\ [][NextToggle]_vars

\* the same with storage writes that may reject
NextFail ==
  \/ NoCallInFlight /\ Tick
  \/ \E p \in Callers : ER_EnterAlone(p) \/ RolloverStep(p) \/ ER_Fail(p)
  \/ NoCallInFlight /\ (CreateQuest \/ CreateTask \/ ToggleTask)

SpecFail == Init /\ [][NextFail]_vars

(* ------------------------ the scoring functions ------------------------ *)

\* a library entry as the quest form stores it
LibEntry(id, active) == [ id |-> id, basePoints |-> 10, active |-> active ]

\* what the forms and the toggles can have left in AppState by instant `clock`
GoalChoices == {50}
StoredTasks ==
  LET task(due, done) == [ id |-> "t1", points |-> 60, dueDate |-> due, completedAt |-> done ]
      today == { Today * TicksPerDay + k : k \in 0 .. (TicksPerDay - 1) } IN
  { <<>> } \cup { << task(due, Null) >> : due \in {Null, clock} }
           \cup UNION { { << task(due, c) >> : due \in {Null, c - 1, c, c + 1} } : c \in today }
StoredHabits ==
  LET kinds == { <<"binary", 3, 20>>, <<"counter", 3, 10>>, <<"counter", 0, 10>>,
                 <<"counter", -2, 10>> } IN
  { [ id |-> "h1", type |-> k[1], target |-> k[2], points |-> k[3], schedule |-> sch ] :
      k \in kinds, sch \in ScheduleChoices }
LogCounts == 0 .. 4
StoredEvents ==
  { <<>>,
    << [ id |-> "e1", pointsEnabled |-> TRUE, points |-> 40, completedAt |-> clock ] >>,
    << [ id |-> "e1", pointsEnabled |-> FALSE, points |-> 40, completedAt |-> clock ] >> }
StoredQuests ==
  { <<>>,
    << [ id |-> 1, libraryId |-> "q1", type |-> "weekly", date |-> Null,
         weekOf |-> weekOfDateStr(Today, DefaultSettings.weekStart),
         multiplier10 |-> DefaultSettings.weeklyFactor10, completedAt |-> clock ] >> }

InitScore ==
  /\ clock \in { d * TicksPerDay + (TicksPerDay - 1) : d \in Days }
  /\ tzOffset \in TzOffsets
  /\ \E g \in GoalChoices : settings = [DefaultSettings EXCEPT !.dailyGoal = g]
  /\ meta = [DefaultMeta EXCEPT !.lastAssignmentRun = Today,
                                !.lastWeekStart = weekOfDateStr(Today, settings.weekStart)]
  /\ tasks \in StoredTasks
  \* a log may be left without its habit, and an assigned quest without its library
  \* entry, by a deleteHabit / deleteQuestLib that did not reach its bulkDel
  \* (lines 1333-1338, 1428-1433)
  /\ habits \in { <<>> } \cup { << h >> : h \in StoredHabits }
  /\ \/ habitLogs = <<>>
     \/ \E c \in LogCounts :
          habitLogs = << [ id |-> <<"h1", Today>>, habitId |-> "h1", date |-> Today,
                           count |-> c,
                           completedAt |-> IF c >= 1 THEN clock ELSE Null ] >>
  /\ events \in StoredEvents
  /\ assignedQuests \in StoredQuests
  /\ questLibrary \in IF assignedQuests = <<>> THEN { <<>> }
                       ELSE { <<>>, << LibEntry("q1", TRUE) >> }
  /\ daySummaries = <<>>
  /\ db = [ settings |-> settings, meta |-> meta, tasks |-> SeqToSet(tasks),
            habits |-> SeqToSet(habits), habitLogs |-> SeqToSet(habitLogs),
            events |-> SeqToSet(events), questLibrary |-> SeqToSet(questLibrary),
            assignedQuests |-> SeqToSet(assignedQuests), daySummaries |-> {},
            cache |-> Precached ]
  /\ pc = [ p \in Procs |-> IF p = "boot" THEN "finished" ELSE "idle" ]
  /\ loc = [ p \in Procs |-> LocInit ]
  /\ turn = "none"
  /\ nextUid = 2
  /\ hist = [ p \in Callers |-> HistInit ]
  /\ hDailyCalls = [ d \in Days |-> 0 ]
  /\ hWeeklyCalls = [ w \in WeekStarts |-> 0 ]
  /\ hStreakRuns = [ d \in Days |-> 0 ]
  /\ lastCall = [ today |-> Null, meta |-> DefaultMeta, aqIds |-> {} ]
  /\ lastOp = NoCall

scoreFrame == << clock, tzOffset, settings, meta, entityVars, assignedQuests, daySummaries,
                db, pc, loc, turn, nextUid, hist, hDailyCalls, hWeeklyCalls, hStreakRuns,
                lastCall >>

\* mutant: a call counts itself into the total
Score_Counting(d) ==
  /\ lastOp' = [ op |-> "score", date |-> d, complete |-> FALSE,
                 value |-> [computeDayTotals(d) EXCEPT
                              !.totalPoints = @ + (IF lastOp.op = "score" THEN 1 ELSE 0)] ]
  /\ UNCHANGED scoreFrame

\* a call computeDayTotals(dateStr) and what it returns (lines 178-239)
Score(d) ==
  /\ lastOp' = [ op |-> "score", date |-> d, complete |-> FALSE,
                 value |-> computeDayTotals(d) ]
  /\ UNCHANGED scoreFrame

\* a call allScheduledHabitsComplete(dateStr) and what it returns (lines 251-263)
HabitsCheck(d) ==
  /\ lastOp' = [ op |-> "habits", date |-> d, value |-> NoSum,
                 complete |-> allScheduledHabitsComplete(d) ]
  /\ UNCHANGED scoreFrame

NextScore == \E d \in Days : Score(d) \/ HabitsCheck(d)

SpecScore == InitScore /\ [][NextScore]_vars

(* ---------------- the application opened on stored state ---------------- *)

\* the quest library and the settings boot() finds in the stores: libraries of 0 to
\* 5 entries, some inactive, with daily and weekly counts below, at and above the
\* size of the active pool
StoredInputs ==
  LET RangeTwoFour == [DefaultSettings EXCEPT !.dailyQuestCount = 0,
                                              !.weeklyQuestMode = "range"]
      RangeZeroOne == [DefaultSettings EXCEPT !.dailyQuestCount = 2,
                                              !.weeklyQuestMode = "range",
                                              !.weeklyQuestMin = 0, !.weeklyQuestMax = 1]
      Nothing == [DefaultSettings EXCEPT !.dailyQuestCount = 0, !.weeklyQuestCount = 0]
      L0 == <<>>
      L1 == << LibEntry("q1", TRUE) >>
      L2 == << LibEntry("q1", FALSE), LibEntry("q2", FALSE) >>
      L3 == << LibEntry("q1", TRUE), LibEntry("q2", FALSE), LibEntry("q3", TRUE) >>
      L4 == << LibEntry("q1", TRUE), LibEntry("q2", TRUE), LibEntry("q3", TRUE),
               LibEntry("q4", TRUE) >>
      L5 == << LibEntry("q1", TRUE), LibEntry("q2", TRUE), LibEntry("q3", TRUE),
               LibEntry("q4", TRUE), LibEntry("q5", TRUE) >>
  IN  ({L0, L1, L2, L3} \X {DefaultSettings, RangeTwoFour, RangeZeroOne, Nothing})
      \cup ({L4} \X {DefaultSettings, RangeTwoFour, RangeZeroOne})
      \cup ({L5} \X {RangeTwoFour})

\* boot() (lines 140-166) on stores that hold a library and settings: either the
\* lifecycle record was never written, or the application last ran the day before
InitStored ==
  /\ clock \in { d * TicksPerDay : d \in Days }
  /\ tzOffset \in TzOffsets
  /\ \E in \in StoredInputs : questLibrary = in[1] /\ settings = in[2]
  /\ meta \in { DefaultMeta,
                [ streak |-> 0, bestStreak |-> 0, lastAssignmentRun |-> Today - 1,
                  lastWeekStart |-> weekOfDateStr(Today - 1, settings.weekStart) ] }
  /\ tasks = <<>> /\ habits = <<>> /\ habitLogs = <<>> /\ events = <<>>
  /\ assignedQuests = <<>> /\ daySummaries = <<>>
  /\ db = [ settings |-> settings, meta |-> meta, tasks |-> {},
            habits |-> {}, habitLogs |-> {}, events |-> {},
            questLibrary |-> SeqToSet(questLibrary),
            assignedQuests |-> {}, daySummaries |-> {},
            cache |-> Precached ]
  /\ pc = [ p \in Procs |-> IF p = "boot" THEN "ready" ELSE "idle" ]
  /\ loc = [ p \in Procs |-> LocInit ]
  /\ turn = "none"
  /\ nextUid = 1
  /\ hist = [ p \in Callers |-> HistInit ]
  /\ hDailyCalls = [ d \in Days |-> 0 ]
  /\ hWeeklyCalls = [ w \in WeekStarts |-> 0 ]
  /\ hStreakRuns = [ d \in Days |-> 0 ]
  /\ lastCall = [ today |-> Null, meta |-> DefaultMeta, aqIds |-> {} ]
  /\ lastOp = NoCall

\* the rollover of that day, and the visibility callback after it
NextStored == \E p \in Callers : ER_EnterAlone(p) \/ RolloverStep(p)

SpecStored == InitStored /\ [][NextStored]_vars

(* ---------------------------- habit handlers ---------------------------- *)

\* what the habit form can submit: type and target (the target input has min="1",
\* line 1291)
HabitFormChoices == { <<"binary", 3>>, <<"counter", 3>>, <<"counter", 1>> }

\* the habit form's submit handler, new habit or edit (lines 1311-1330): the record
\* is stored and pushed, or replaces the habit of the same id; the logs are left
SaveHabit ==
  /\ UserIdle /\ \A c \in Clicks : pc[c] = "idle"
  /\ \E id \in HabitIds, kind \in HabitFormChoices :
       LET obj == [ id |-> id, type |-> kind[1], target |-> kind[2], points |-> 20,
                    schedule |-> SeqToSet(weekdays) ]
           is == FindAll(habits, id)
           hs == IF is # {} THEN [habits EXCEPT ![FirstIdx(is)] = obj]
                 ELSE Append(habits, obj) IN
       /\ hs # habits
       /\ habits' = hs
       /\ CreateDone([AppState EXCEPT !.habits = hs])
  /\ UNCHANGED << clock, tzOffset, settings, meta, tasks, habitLogs, events,
                  questLibrary, assignedQuests, callVars >>

\* mutant: a step sets completedAt at the target and never clears it
SteppedLog_NeverCleared(h, log, delta) ==
  LET tgt == TargetOr1(h)
      c == clamp(log.count + delta, 0, tgt) IN
  [log EXCEPT !.count = c, !.completedAt = IF c >= tgt THEN clock ELSE @]

\* stepHabitCounter's change of the log (lines 1367-1370)
SteppedLog(h, log, delta) ==
  LET tgt == TargetOr1(h)
      c == clamp(log.count + delta, 0, tgt) IN
  [log EXCEPT !.count = c, !.completedAt = IF c >= tgt THEN clock ELSE Null]

\* completeHabitCounter's change of the log (lines 1380-1382)
CompletedLog(h, log) == [log EXCEPT !.count = TargetOr1(h), !.completedAt = clock]

\* the log after the handler of the button `op`
AfterHabitOp(h, log, op) ==
  CASE op = "toggle" -> ToggledLog(log)
    [] op = "complete" -> CompletedLog(h, log)
    [] op = "inc" -> SteppedLog(h, log, 1)
    [] OTHER -> SteppedLog(h, log, -1)

\* a click on a habit button (lines 1150-1152): toggleHabitBinary, stepHabitCounter
\* or completeHabitCounter up to the await inside getOrCreateHabitLog (lines
\* 1343-1346); when today's log exists the handler runs on to its end
HabitClick_Begin(c) ==
  /\ pc[c] = "idle" /\ UserIdle
  /\ \E k \in 1 .. Len(habits) :
     \E op \in (IF habits[k].type = "binary" THEN {"toggle"} ELSE {"inc", "dec", "complete"}) :
       LET h == habits[k]
           ls == { j \in 1 .. Len(habitLogs) :
                     habitLogs[j].habitId = h.id /\ habitLogs[j].date = Today } IN
       \* the buttons are rendered for the habits scheduled today (lines 533-535)
       /\ TrueWeekday(Today) \in h.schedule
       /\ IF ls # {}
          THEN LET hl == [habitLogs EXCEPT ![FirstIdx(ls)] = AfterHabitOp(h, @, op)] IN
               /\ habitLogs' = hl
               /\ UpsertDone([AppState EXCEPT !.habitLogs = hl])
               /\ lastOp' = [NoCall EXCEPT !.op = op, !.date = Today,
                                           !.complete = habitLogs[FirstIdx(ls)].completedAt # Null]
               /\ UNCHANGED << pc, loc >>
          ELSE /\ pc' = [pc EXCEPT ![c] = "log_wait"]
               /\ loc' = [loc EXCEPT ![c].today = Today, ![c].habit = h, ![c].op = op]
               /\ UNCHANGED << habitLogs, daySummaries, db, lastOp >>
  /\ UNCHANGED << clock, tzOffset, settings, meta, tasks, habits, events, questLibrary,
                  assignedQuests, turn, nextUid, hist, hDailyCalls, hWeeklyCalls,
                  hStreakRuns, lastCall >>

\* the new log's write acknowledged: the log is pushed (line 1347) and the handler
\* runs on: it changes the log, stores it and refreshes today's summary
HabitClick_Created(c) ==
  /\ pc[c] = "log_wait" /\ turn = "none"
  /\ LET h == loc[c].habit
         log == [ id |-> <<h.id, loc[c].today>>, habitId |-> h.id, date |-> loc[c].today,
                  count |-> 0, completedAt |-> Null ]
         hl == Append(habitLogs, AfterHabitOp(h, log, loc[c].op)) IN
     /\ habitLogs' = hl
     /\ UpsertDone([AppState EXCEPT !.habitLogs = hl])
  /\ lastOp' = [NoCall EXCEPT !.op = loc[c].op, !.date = loc[c].today]
  /\ pc' = [pc EXCEPT ![c] = "idle"]
  /\ loc' = [loc EXCEPT ![c] = LocInit]
  /\ UNCHANGED << clock, tzOffset, settings, meta, tasks, habits, events, questLibrary,
                  assignedQuests, turn, nextUid, hist, hDailyCalls, hWeeklyCalls,
                  hStreakRuns, lastCall >>

\* deleteHabit(id) up to its db.del (lines 1333-1334)
DeleteHabit_Begin(c) ==
  /\ pc[c] = "idle" /\ UserIdle
  /\ \E k \in 1 .. Len(habits) :
       loc' = [loc EXCEPT ![c].habit = habits[k]]
  /\ pc' = [pc EXCEPT ![c] = "del_wait"]
  /\ UNCHANGED << clock, tzOffset, settings, meta, entityVars, assignedQuests,
                  daySummaries, db, turn, nextUid, hist, histVars >>

\* the habit's delete acknowledged: it is filtered out of memory and the ids of its
\* logs in memory are collected; bulkDel is issued when there are any (lines 1335-1338)
DeleteHabit_Deleted(c) ==
  /\ pc[c] = "del_wait" /\ turn = "none"
  /\ LET id == loc[c].habit.id
         rm == { habitLogs[j].id : j \in { k \in 1 .. Len(habitLogs) :
                                             habitLogs[k].habitId = id } } IN
     /\ db' = [db EXCEPT !.habits = { r \in @ : r.id # id }]
     /\ habits' = SelectSeq(habits, LAMBDA x : x.id # id)
     /\ IF rm # {}
        THEN /\ pc' = [pc EXCEPT ![c] = "bulk_wait"]
             /\ loc' = [loc EXCEPT ![c].rm = rm]
             /\ lastOp' = lastOp
        ELSE /\ pc' = [pc EXCEPT ![c] = "idle"]
             /\ loc' = [loc EXCEPT ![c] = LocInit]
             /\ lastOp' = [ op |-> "habit_deleted", date |-> Today, value |-> NoSum,
                            complete |-> FALSE, item |-> id ]
  /\ UNCHANGED << clock, tzOffset, settings, meta, tasks, habitLogs, events,
                  questLibrary, assignedQuests, daySummaries, turn, nextUid, hist,
                  hDailyCalls, hWeeklyCalls, hStreakRuns, lastCall >>

\* bulkDel acknowledged: the habit's logs are filtered out of memory (line 1338)
DeleteHabit_LogsDeleted(c) ==
  /\ pc[c] = "bulk_wait" /\ turn = "none"
  /\ db' = [db EXCEPT !.habitLogs = { r \in @ : r.id \notin loc[c].rm }]
  /\ habitLogs' = SelectSeq(habitLogs, LAMBDA l : l.habitId # loc[c].habit.id)
  /\ lastOp' = [ op |-> "habit_deleted", date |-> Today, value |-> NoSum,
                 complete |-> FALSE, item |-> loc[c].habit.id ]
  /\ pc' = [pc EXCEPT ![c] = "idle"]
  /\ loc' = [loc EXCEPT ![c] = LocInit]
  /\ UNCHANGED << clock, tzOffset, settings, meta, tasks, habits, events,
                  questLibrary, assignedQuests, daySummaries, turn, nextUid, hist,
                  hDailyCalls, hWeeklyCalls, hStreakRuns, lastCall >>

\* boot() has returned on a first launch: the lifecycle record and today's summary
\* are written (lines 328-338)
InitReady ==
  /\ clock \in { d * TicksPerDay : d \in Days }
  /\ tzOffset \in TzOffsets
  /\ settings = DefaultSettings
  /\ meta = [DefaultMeta EXCEPT !.lastAssignmentRun = Today,
                                !.lastWeekStart = weekOfDateStr(Today, settings.weekStart)]
  /\ tasks = <<>> /\ habits = <<>> /\ habitLogs = <<>> /\ events = <<>>
  /\ questLibrary = <<>> /\ assignedQuests = <<>>
  /\ daySummaries = << [ date |-> Today, totalPoints |-> 0, goalMet |-> FALSE ] >>
  /\ db = [ settings |-> settings, meta |-> meta, tasks |-> {},
            habits |-> {}, habitLogs |-> {}, events |-> {}, questLibrary |-> {},
            assignedQuests |-> {}, daySummaries |-> SeqToSet(daySummaries),
            cache |-> Precached ]
  /\ pc = [ p \in Procs |-> IF p = "boot" THEN "finished" ELSE "idle" ]
  /\ loc = [ p \in Procs |-> LocInit ]
  /\ turn = "none"
  /\ nextUid = 1
  /\ hist = [ p \in Callers |-> HistInit ]
  /\ hDailyCalls = [ d \in Days |-> IF d = Today THEN 1 ELSE 0 ]
  /\ hWeeklyCalls = [ w \in WeekStarts |-> 0 ]
  /\ hStreakRuns = [ d \in Days |-> 0 ]
  /\ lastCall = [ today |-> Today, meta |-> meta, aqIds |-> {} ]
  /\ lastOp = NoCall

\* the habit form and the habit buttons in the course of one day
NextHabits ==
  \/ SaveHabit
  \/ \E c \in Clicks : HabitClick_Begin(c) \/ HabitClick_Created(c)

SpecHabits == InitReady /\ [][NextHabits]_vars

\* the habit form, the habit buttons and the delete button in the course of one day
NextDelete ==
  \/ SaveHabit
  \/ \E c \in Clicks : HabitClick_Begin(c) \/ HabitClick_Created(c)
  \/ \E c \in Clicks : \/ DeleteHabit_Begin(c) \/ DeleteHabit_Deleted(c)
                       \/ DeleteHabit_LogsDeleted(c)

SpecDelete == InitReady /\ [][NextDelete]_vars

(* --------------------- upsertDaySummary, step by step ------------------- *)
(* The write of a summary and the continuation that updates AppState are    *)
(* separate events: readwrite transactions on one store commit in the order *)
(* they were created, and their completion events run in that order.        *)

\* the callbacks that call upsertDaySummary(today): the timer's refresh, a SameDay
\* ensureRollover from the visibility listener, a toggle handler
Upserters == {"timer", "vis", "click1"}
InFlightSums == { q \in Upserters : pc[q] \in {"up_wait", "up_done"} }

\* upsertDaySummary(dateStr) up to its db.set (lines 243-244)
Upsert_Issue(p) ==
  /\ pc' = [pc EXCEPT ![p] = "up_wait"]
  /\ loc' = [loc EXCEPT ![p].today = Today, ![p].sum = computeDayTotals(Today),
                        ![p].pos = Cardinality(InFlightSums) + 1, ![p].created = <<>>,
                        ![p].op = IF InFlightSums # {} THEN "overlapped" ELSE "alone"]

\* mutant: the continuations run in any order
HeadOfQueue_Any(p) == TRUE

\* the completion event of p's transaction is the next one to be dispatched
HeadOfQueue(p) == loc[p].pos = 1

\* every transaction created before p's has committed
CommitsInOrder(p) ==
  \A q \in InFlightSums : loc[q].pos < loc[p].pos => pc[q] = "up_done"

\* the timer callback on an unchanged date (lines 1539-1547)
Upsert_FromTimer ==
  /\ pc["timer"] = "idle" /\ UserIdle
  /\ Today = meta.lastAssignmentRun
  /\ Upsert_Issue("timer")
  /\ UNCHANGED << clock, tzOffset, settings, meta, entityVars, assignedQuests,
                  daySummaries, db, turn, nextUid, hist, histVars >>

\* ensureRollover() from the visibility listener on an unchanged date (lines 323,
\* 372-374)
Upsert_FromRollover ==
  /\ pc["vis"] = "idle" /\ UserIdle
  /\ RolloverBranch(meta, Today) = "same"
  /\ Upsert_Issue("vis")
  /\ UNCHANGED << clock, tzOffset, settings, meta, entityVars, assignedQuests,
                  daySummaries, db, turn, nextUid, hist, histVars >>

\* toggleTask(id) up to its db.set('tasks', t) (lines 1262-1266); `created` holds
\* the record the write was given
Toggle_Begin ==
  /\ pc["click1"] = "idle" /\ UserIdle
  /\ \E i \in 1 .. Len(tasks) :
       /\ tasks' = [tasks EXCEPT ![i].completedAt = IF @ # Null THEN Null ELSE clock]
       /\ loc' = [loc EXCEPT !["click1"].created = << tasks'[i] >>]
  /\ pc' = [pc EXCEPT !["click1"] = "task_wait"]
  /\ UNCHANGED << clock, tzOffset, settings, meta, habits, habitLogs, events,
                  questLibrary, assignedQuests, daySummaries, db, turn, nextUid, hist,
                  histVars >>

\* the task's write acknowledged; upsertDaySummary(todayStr()) is called (line 1267)
Toggle_TaskStored ==
  /\ pc["click1"] = "task_wait" /\ turn = "none"
  /\ db' = [db EXCEPT !.tasks = { r \in @ : r.id # loc["click1"].created[1].id }
                                 \cup { loc["click1"].created[1] }]
  /\ Upsert_Issue("click1")
  /\ UNCHANGED << clock, tzOffset, settings, meta, entityVars, assignedQuests,
                  daySummaries, turn, nextUid, hist, histVars >>

\* the transaction of p's db.set('daySummaries', sum) commits (line 244)
Upsert_Commit(p) ==
  /\ pc[p] = "up_wait" /\ turn = "none"
  /\ CommitsInOrder(p)
  /\ db' = [db EXCEPT !.daySummaries = PutDate(@, loc[p].sum)]
  /\ pc' = [pc EXCEPT ![p] = "up_done"]
  /\ UNCHANGED << clock, tzOffset, settings, meta, entityVars, assignedQuests,
                  daySummaries, loc, turn, nextUid, hist, histVars >>

\* p resumes after the await: findIndex, then replace or push (lines 245-247), and
\* the callback ends
Upsert_Resume(p) ==
  /\ pc[p] = "up_done" /\ turn = "none"
  /\ HeadOfQueue(p)
  /\ daySummaries' = UpsertInMemory(daySummaries, loc[p].sum)
  /\ pc' = [pc EXCEPT ![p] = "idle"]
  /\ loc' = [ q \in Procs |->
               IF q = p THEN LocInit
               ELSE IF q \in InFlightSums /\ loc[q].pos > loc[p].pos
                    THEN [loc[q] EXCEPT !.pos = @ - 1]
                    ELSE loc[q] ]
  /\ lastOp' = [NoCall EXCEPT !.op = "upsert", !.date = loc[p].today,
                              !.value = loc[p].sum,
                              !.complete = (loc[p].op = "overlapped")]
  /\ UNCHANGED << clock, tzOffset, settings, meta, entityVars, assignedQuests, db,
                  turn, nextUid, hist, hDailyCalls, hWeeklyCalls, hStreakRuns,
                  lastCall >>

\* summary refreshes from the timer, the visibility listener and a task toggle, in
\* flight together, in the course of one day
NextUpsert ==
  \/ CreateTask
  \/ Upsert_FromTimer \/ Upsert_FromRollover
  \/ Toggle_Begin \/ Toggle_TaskStored
  \/ \E p \in Upserters : Upsert_Commit(p) \/ Upsert_Resume(p)

SpecUpsert == InitReady /\ [][NextUpsert]_vars

(* ------------------------------ the views ------------------------------ *)

\* mutant: the cached record is ignored
SummaryOrLive_AlwaysLive(ds) == computeDayTotals(ds)

\* AppState.daySummaries.find(s => s.date === ds) || computeDayTotals(ds)
\* (lines 395, 774, 835, 879, 891, 911)
SummaryOrLive(ds) ==
  LET is == { i \in 1 .. Len(daySummaries) : daySummaries[i].date = ds } IN
  IF is # {} THEN daySummaries[FirstIdx(is)] ELSE computeDayTotals(ds)

\* the totals of the n days ending today, oldest first (lines 831-837, 906-914)
TotalsOfLast(n) == [ i \in 1 .. n |-> SummaryOrLive(Today - (n - i)).totalPoints ]

\* sumRange(nDays) (lines 873-883)
sumRange(nDays) == SumSeq(TotalsOfLast(nDays))

\* the window explored lies in January 1970, days 0 .. 30
MonthStart == 0
DaysInMonth == 31
\* sumMonth() (lines 884-895)
sumMonth == SumSeq([ day \in 1 .. DaysInMonth |-> SummaryOrLive(MonthStart + day - 1).totalPoints ])

HeatmapDays == 35
ChartDays == {7, 30}

\* updateKPI() (lines 393-396)
UpdateKPI ==
  /\ lastOp' = [ op |-> "kpi", date |-> Today, value |-> SummaryOrLive(Today),
                 complete |-> FALSE ]
  /\ UNCHANGED << clock, tzOffset, settings, meta, entityVars, assignedQuests,
                  daySummaries, db, handlerFrame >>

\* openDaySheet(dateStr) on a cell of the calendar (lines 773-775)
OpenDaySheet ==
  /\ \E d \in (FirstDay - 1) .. LastDay :
       lastOp' = [ op |-> "daysheet", date |-> d, value |-> SummaryOrLive(d),
                   complete |-> FALSE ]
  /\ UNCHANGED << clock, tzOffset, settings, meta, entityVars, assignedQuests,
                  daySummaries, db, handlerFrame >>

\* renderStats(): the heatmap, the week and month sums and the two line charts
\* (lines 826-870)
RenderStats ==
  /\ lastOp' = [ op |-> "stats", date |-> Today, value |-> NoSum, complete |-> FALSE,
                 heat |-> TotalsOfLast(HeatmapDays),
                 week |-> sumRange(7), month |-> sumMonth,
                 charts |-> [ n \in ChartDays |-> TotalsOfLast(n) ] ]
  /\ UNCHANGED << clock, tzOffset, settings, meta, entityVars, assignedQuests,
                  daySummaries, db, handlerFrame >>

\* the task handlers and the views between rollovers that run to completion
NextViews ==
  \/ NoCallInFlight /\ Tick
  \/ \E p \in Callers : ER_EnterAlone(p) \/ RolloverStep(p)
  \/ NoCallInFlight /\ (CreateQuest \/ CreateTask \/ ToggleTask \/ DeleteTask)
  \/ NoCallInFlight /\ UserIdle /\ (UpdateKPI \/ OpenDaySheet \/ RenderStats)

SpecViews == Init /\ [][NextViews]_vars

(* -------------------------------- boot() -------------------------------- *)

\* mutant: the stored singleton is ignored
LoadOrCreate_AlwaysDefault(stored, default) == default

\* what db.get gives for a key that is not stored, and AppState.settings /
\* AppState.meta before boot() has assigned them
Missing == [ missing |-> TRUE ]

\* `let x = await db.get(...); if (!x) { x = structuredClone(Default) ... }`
\* (lines 144-148, 152-156)
LoadOrCreate(stored, default) == IF stored = Missing THEN default ELSE stored

\* db.all(store): the records of a store as an array
AllOf(store) ==
  CHOOSE a \in [ 1 .. Cardinality(store) -> store ] : \A r \in store : \E i \in DOMAIN a : a[i] = r

\* the page is loaded on stores that are empty (first launch) or hold what an
\* earlier session left: settings, a lifecycle record of yesterday or of today,
\* a quest in the library
InitBoot ==
  /\ clock \in { d * TicksPerDay : d \in Days }
  /\ tzOffset \in TzOffsets
  /\ settings = Missing /\ meta = Missing
  /\ tasks = <<>> /\ habits = <<>> /\ habitLogs = <<>> /\ events = <<>>
  /\ questLibrary = <<>> /\ assignedQuests = <<>> /\ daySummaries = <<>>
  /\ \E st \in {Missing, [DefaultSettings EXCEPT !.dailyGoal = 50]},
        run \in {Null, Today - 1, Today},
        lib \in { {}, {LibEntry("q1", TRUE)} } :
       db = [ settings |-> st,
              meta |-> IF run = Null THEN Missing
                       ELSE [ streak |-> 1, bestStreak |-> 1, lastAssignmentRun |-> run,
                              lastWeekStart |-> weekOfDateStr(run, DefaultSettings.weekStart) ],
              tasks |-> {}, habits |-> {}, habitLogs |-> {}, events |-> {},
              questLibrary |-> lib, assignedQuests |-> {}, daySummaries |-> {},
            cache |-> Precached ]
  /\ pc = [ p \in Procs |-> IF p = "boot" THEN "load" ELSE "idle" ]
  /\ loc = [ p \in Procs |-> LocInit ]
  /\ turn = "none"
  /\ nextUid = 1
  /\ hist = [ p \in Callers |-> HistInit ]
  /\ hDailyCalls = [ d \in Days |-> 0 ]
  /\ hWeeklyCalls = [ w \in WeekStarts |-> 0 ]
  /\ hStreakRuns = [ d \in Days |-> 0 ]
  /\ lastCall = [ today |-> Null, meta |-> DefaultMeta, aqIds |-> {} ]
  /\ lastOp = NoCall

\* boot() up to its call of ensureRollover (lines 140-164): the singletons are read,
\* or created and stored, and the collections are read
BootLoad ==
  /\ pc["boot"] = "load" /\ turn = "none"
  /\ settings' = LoadOrCreate(db.settings, DefaultSettings)
  /\ meta' = LoadOrCreate(db.meta, DefaultMeta)
  /\ db' = [db EXCEPT !.settings = settings', !.meta = meta']
  /\ tasks' = AllOf(db.tasks) /\ habits' = AllOf(db.habits)
  /\ habitLogs' = AllOf(db.habitLogs) /\ events' = AllOf(db.events)
  /\ questLibrary' = AllOf(db.questLibrary)
  /\ assignedQuests' = AllOf(db.assignedQuests)
  /\ daySummaries' = AllOf(db.daySummaries)
  /\ pc' = [pc EXCEPT !["boot"] = "ready"]
  /\ UNCHANGED << clock, tzOffset, loc, turn, nextUid, hist, histVars >>

\* boot() and the callbacks it registers; the date may change while a call waits
\* for storage
NextBoot ==
  \/ Tick
  \/ BootLoad
  \/ \E p \in Callers : ER_EnterAlone(p) \/ RolloverStep(p)
  \/ NoCallInFlight /\ CreateQuest

SpecBoot == InitBoot /\ [][NextBoot]_vars

(* ------------------------------- claims -------------------------------- *)

\* a call of ensureRollover has run to completion and is about to return
Completed(p) == pc[p] = "done" /\ hist[p].branch # "refresh"
AssignedIds == { assignedQuests[i].id : i \in 1 .. Len(assignedQuests) }
DailyRecordsOn(d) ==
  { i \in 1 .. Len(assignedQuests) :
      assignedQuests[i].type = "daily" /\ assignedQuests[i].date = d }
WeeklyRecordsOf(w) ==
  { i \in 1 .. Len(assignedQuests) :
      assignedQuests[i].type = "weekly" /\ assignedQuests[i].weekOf = w }
SummaryWrites(p) == SelectSeq(hist[p].writes, LAMBDA w : w[1] = "daySummaries")
\* the call follows a completed call for the same date, and the date has not changed
SecondCallSameDate(p) ==
  Completed(p) /\ lastCall.today = loc[p].today /\ Today = loc[p].today

\* C1: when ensureRollover() is run to completion twice in sequence with no date
\* change between the calls, the lifecycle record after the second call equals the
\* record after the first, and the second call adds no assigned quest.
C1_RolloverIdempotent ==
  \A p \in Callers :
    SecondCallSameDate(p) =>
      /\ meta = lastCall.meta
      /\ AssignedIds \subseteq lastCall.aqIds
      /\ hist[p].added = 0

C1_Witness ==
  \E p \in Callers :
    /\ SecondCallSameDate(p)
    /\ meta.streak >= 1
    /\ assignedQuests # <<>>

\* C2: when two invocations of ensureRollover() overlap for the same date change,
\* the streak update rule is applied exactly once for that date change.
C2_StreakRuleOncePerDateChange ==
  \A d \in Days : hStreakRuns[d] <= 1

\* C3: when two invocations overlap for the same date change, one batch of daily
\* quests is created for the new date and at most one batch of weekly quests for
\* the new week: the daily records dated d never exceed min(dailyQuestCount, pool).
C3_OneBatchPerBoundary ==
  /\ \A d \in Days :
       Cardinality(DailyRecordsOn(d)) <= Min(settings.dailyQuestCount, Len(ActivePool))
  /\ \A w \in WeekStarts :
       \A c \in WeeklyCounts : Cardinality(WeeklyRecordsOf(w)) <= Min(c, Len(ActivePool))

\* C4: with calls that do not overlap, every date has daily quests assigned by at
\* most one call, and every date on which ensureRollover() ran has had
\* assignDailyQuests invoked for it exactly once.
C4_DailyAssignmentOncePerDate ==
  /\ \A d \in Days : hDailyCalls[d] <= 1
  /\ \A p \in Callers : Completed(p) => hDailyCalls[loc[p].today] = 1
  /\ lastCall.today # Null => hDailyCalls[lastCall.today] = 1

C4_Witness ==
  \E p \in Callers :
    /\ Completed(p) /\ hist[p].branch = "same"
    /\ DailyRecordsOn(loc[p].today) # {}
    /\ \E d \in Days : d # loc[p].today /\ hDailyCalls[d] = 1

\* a habit scheduled on the weekday of date d that has no log for d, or count 0
HabitLeftUndone(d) ==
  \E i \in 1 .. Len(habits) :
    /\ TrueWeekday(d) \in habits[i].schedule
    /\ \A j \in 1 .. Len(habitLogs) :
         (habitLogs[j].habitId = habits[i].id /\ habitLogs[j].date = d)
           => habitLogs[j].count = 0

\* C5: in a DayChanged rollover finalizing P the streak becomes streak + 1 when
\* computeDayTotals(P).goalMet and allScheduledHabitsComplete(P), and 0 otherwise;
\* in particular it is 0 when the goal was met but a habit scheduled on P has
\* count 0 or no log.
C5_StreakUpdateRule ==
  \A p \in Callers :
    pc[p] = "dc_daily" =>
      LET P == loc[p].prev
          before == hist[p].meta0.streak IN
      /\ meta.streak = IF computeDayTotals(P).goalMet /\ allScheduledHabitsComplete(P)
                       THEN before + 1 ELSE 0
      /\ (computeDayTotals(P).goalMet /\ HabitLeftUndone(P)) => meta.streak = 0

\* a DayChanged call whose date is more than one day after lastAssignmentRun
GapCall(p) ==
  /\ Completed(p) /\ hist[p].branch = "changed"
  /\ loc[p].today - hist[p].meta0.lastAssignmentRun > 1

\* C6: a rollover more than one day after lastAssignmentRun applies the streak rule
\* once, for the date stored in lastAssignmentRun, and writes DaySummary records
\* for that date and for today only.
C6_GapFinalizesOnlyLastRun ==
  \A p \in Callers :
    GapCall(p) =>
      /\ hist[p].streakFor = << hist[p].meta0.lastAssignmentRun >>
      /\ SummaryWrites(p) = << <<"daySummaries", hist[p].meta0.lastAssignmentRun>>,
                               <<"daySummaries", loc[p].today>> >>

C6_Witness ==
  \E p \in Callers :
    /\ GapCall(p)
    /\ { daySummaries[i].date : i \in 1 .. Len(daySummaries) }
         = { hist[p].meta0.lastAssignmentRun, loc[p].today }

\* C7 as stated: after an absence of two or more days the next rollover leaves the
\* streak at 0, whatever the last day's score and habits.
C7_StreakResetsAfterGap ==
  \A p \in Callers : GapCall(p) => meta.streak = 0

\* C7 as amended: after an absence of two or more days the next rollover applies
\* the streak rule once, to the last day the application ran: the streak is
\* incremented when that day met the goal and allScheduledHabitsComplete held for
\* it, and is 0 otherwise.
C7_GapAppliesRuleToLastRun ==
  \A p \in Callers :
    GapCall(p) =>
      LET P == hist[p].meta0.lastAssignmentRun IN
      /\ Len(hist[p].streakFor) = 1
      /\ meta.streak = IF computeDayTotals(P).goalMet /\ allScheduledHabitsComplete(P)
                       THEN hist[p].meta0.streak + 1 ELSE 0

C7_Witness ==
  \E p \in Callers : GapCall(p) /\ meta.streak = hist[p].meta0.streak + 1

\* C8: a SameDay call leaves streak, bestStreak, lastAssignmentRun, lastWeekStart
\* and the assigned quests unchanged, and writes only today's DaySummary.
C8_SameDayFrame ==
  \A p \in Callers :
    (Completed(p) /\ hist[p].branch = "same") =>
      /\ meta = hist[p].meta0
      /\ assignedQuests = hist[p].aq0
      /\ hist[p].writes = << <<"daySummaries", loc[p].today>> >>
      /\ db.meta = meta

C8_Witness ==
  \E p \in Callers :
    /\ Completed(p) /\ hist[p].branch = "same"
    /\ meta.streak >= 1 /\ assignedQuests # <<>>

\* C9: a FirstRun call invokes the daily assignment for today and the weekly one
\* for the week-start of today, sets lastAssignmentRun = today and lastWeekStart =
\* the week-start of today, leaves streak and bestStreak, persists the lifecycle
\* record and then writes today's DaySummary; afterwards the controller is SameDay.
C9_FirstRun ==
  \A p \in Callers :
    (Completed(p) /\ hist[p].branch = "first") =>
      LET t == loc[p].today
          ws == startOfWeek(t, settings.weekStart) IN
      /\ hDailyCalls[t] = 1
      /\ hWeeklyCalls[ws] = 1
      /\ meta.lastAssignmentRun = t
      /\ meta.lastWeekStart = ws
      /\ meta.streak = hist[p].meta0.streak /\ meta.bestStreak = hist[p].meta0.bestStreak
      /\ db.meta = meta
      /\ SubSeq(hist[p].writes, Len(hist[p].writes) - 1, Len(hist[p].writes))
           = << <<"meta", Null>>, <<"daySummaries", t>> >>
      /\ RolloverBranch(meta, Today) = "same"

\* C10: in a DayChanged rollover weekly quests are assigned if and only if the
\* week-start of today differs from lastWeekStart (or, when unset, from the
\* week-start of the previous date), lastWeekStart is updated only then, and each
\* week-start receives at most one batch of weekly quests.
C10_WeeklyBoundary ==
  /\ \A p \in Callers :
       (Completed(p) /\ hist[p].branch = "changed") =>
         LET m0 == hist[p].meta0
             ws == startOfWeek(loc[p].today, settings.weekStart)
             last == IF m0.lastWeekStart # Null THEN m0.lastWeekStart
                     ELSE startOfWeek(loc[p].prev, settings.weekStart)
             due == ws # last IN
         /\ loc[p].weekly <=> due
         /\ meta.lastWeekStart = IF due THEN ws ELSE m0.lastWeekStart
  /\ \A w \in WeekStarts : hWeeklyCalls[w] <= 1

\* the assigned quests the call of p has created so far, stored or awaiting the write
CallRecords(p) ==
  SubSeq(assignedQuests, Len(hist[p].aq0) + 1, Len(assignedQuests)) \o loc[p].created
InCall(p) == pc[p] \notin {"ready", "idle", "finished"}
\* the batch of one kind ("daily" / "weekly") among them
BatchOf(p, kind) ==
  { i \in 1 .. Len(CallRecords(p)) : CallRecords(p)[i].type = kind }
ActiveIds == { questLibrary[i].id : i \in { j \in 1 .. Len(questLibrary) : questLibrary[j].active } }
\* the largest count a call may request for a batch
RequestedMax(kind) ==
  IF kind = "daily" THEN settings.dailyQuestCount
  ELSE CHOOSE c \in WeeklyCounts : \A c2 \in WeeklyCounts : c2 <= c

\* C11: one call of assignDailyQuests or assignWeeklyQuests creates records only for
\* library entries that are active, never two for the same entry, never more than
\* the active pool has entries nor more than the count asked for, and none when the
\* pool is empty or the count is 0.
C11_SamplingBoundAndDistinct ==
  \A p \in Callers :
    InCall(p) =>
      \A kind \in {"daily", "weekly"} :
        LET recs == CallRecords(p)
            batch == BatchOf(p, kind) IN
        /\ \A i \in batch : recs[i].libraryId \in ActiveIds
        /\ \A i, j \in batch : i # j => recs[i].libraryId # recs[j].libraryId
        /\ Cardinality(batch) <= Len(ActivePool)
        /\ Cardinality(batch) <= RequestedMax(kind)
        /\ (ActivePool = <<>> \/ RequestedMax(kind) = 0) => batch = {}

\* a call asked for more daily quests than the pool of two active entries (one
\* entry of the library being inactive) and created both
C11_Witness ==
  \E p \in Callers :
    /\ pc[p] = "done"
    /\ Len(ActivePool) = 2 /\ Len(questLibrary) = 3
    /\ settings.dailyQuestCount > 2
    /\ Cardinality(BatchOf(p, "daily")) = 2

\* the call of p has been through assignWeeklyQuests
WeeklyAssigned(p) ==
  /\ pc[p] \in {"fr_meta", "fr_meta_wait", "fr_sum_wait", "dc_meta", "dc_meta_wait", "done"}
  /\ hist[p].branch = "first" \/ (hist[p].branch = "changed" /\ loc[p].weekly)

\* C12: in range mode with weeklyQuestMin <= weeklyQuestMax the number of weekly
\* quests one assignWeeklyQuests call creates lies in
\* [min(weeklyQuestMin, pool), min(weeklyQuestMax, pool)], whatever Math.random
\* returns; with min 2, max 4 and a pool above 4 it lies in [2, 4].
C12_WeeklyRangeCount ==
  \A p \in Callers :
    (/\ WeeklyAssigned(p)
     /\ settings.weeklyQuestMode = "range"
     /\ settings.weeklyQuestMin <= settings.weeklyQuestMax) =>
      LET n == Cardinality(BatchOf(p, "weekly")) IN
      /\ n >= Min(settings.weeklyQuestMin, Len(ActivePool))
      /\ n <= Min(settings.weeklyQuestMax, Len(ActivePool))

\* range 2..4 over a pool of five: the draw came out at the low end
C12_Witness ==
  \E p \in Callers :
    /\ WeeklyAssigned(p) /\ pc[p] = "done"
    /\ settings.weeklyQuestMode = "range"
    /\ settings.weeklyQuestMin = 2 /\ settings.weeklyQuestMax = 4
    /\ Len(ActivePool) = 5
    /\ Cardinality(BatchOf(p, "weekly")) = 2

\* a computeDayTotals call has just returned
Scored == lastOp.op = "score"
\* the total of date d with one kind of item left out / with that kind alone
WithoutTasks(d) == computeDayTotalsIn([AppState EXCEPT !.tasks = <<>>], d).totalPoints
WithoutLogs(d) == computeDayTotalsIn([AppState EXCEPT !.habitLogs = <<>>], d).totalPoints
OnlyTasks(d) ==
  computeDayTotalsIn([AppState EXCEPT !.habitLogs = <<>>, !.events = <<>>,
                                      !.assignedQuests = <<>>], d).totalPoints
OnlyLogs(d) ==
  computeDayTotalsIn([AppState EXCEPT !.tasks = <<>>, !.events = <<>>,
                                      !.assignedQuests = <<>>], d).totalPoints
OnlyEvents(d) ==
  computeDayTotalsIn([AppState EXCEPT !.tasks = <<>>, !.habitLogs = <<>>,
                                      !.assignedQuests = <<>>], d).totalPoints
OnlyQuests(d) ==
  computeDayTotalsIn([AppState EXCEPT !.tasks = <<>>, !.habitLogs = <<>>,
                                      !.events = <<>>], d).totalPoints
\* the one task, completed on date d after its due instant, is all there is to score
OverdueScenario(d) ==
  /\ Len(tasks) = 1 /\ habitLogs = <<>> /\ events = <<>> /\ assignedQuests = <<>>
  /\ tasks[1].completedAt # Null /\ tasks[1].dueDate # Null
  /\ InDateWindow(tasks[1].completedAt, d) /\ InDateWindow(tasks[1].dueDate, d)
  /\ tasks[1].completedAt > tasks[1].dueDate
  /\ tasks[1].points = 60 /\ settings.dailyGoal = 50

\* C13: a task completed strictly after its due instant adds 0 to computeDayTotals of
\* the completion date whatever its points, a task completed at or before it (or
\* without a due date) adds its points; goal 50 and one 60-point task completed
\* later on its due day give totalPoints 0 and goalMet false.
C13_OverdueZeroing ==
  Scored =>
    LET d == lastOp.date IN
    /\ \A i \in 1 .. Len(tasks) :
         (tasks[i].completedAt # Null /\ InDateWindow(tasks[i].completedAt, d)) =>
           lastOp.value.totalPoints - WithoutTasks(d) =
             IF tasks[i].dueDate # Null /\ tasks[i].completedAt > tasks[i].dueDate
             THEN 0 ELSE tasks[i].points
    /\ OverdueScenario(d) =>
         lastOp.value = [ date |-> d, totalPoints |-> 0, goalMet |-> FALSE ]

C13_Witness ==
  Scored /\ OverdueScenario(lastOp.date) /\ lastOp.value.totalPoints = 0

\* the one habit is a counter habit scored on date d: it is scheduled on the weekday
\* the scoring uses for d and has a log for d
CounterScored(d) ==
  /\ Len(habits) = 1 /\ Len(habitLogs) = 1
  /\ habits[1].type = "counter"
  /\ WeekdayOfDateStr(d) \in habits[1].schedule
  /\ habitLogs[1].habitId = habits[1].id /\ habitLogs[1].date = d
\* what the log would add to the total of d if its count were c
CounterContribution(d, c) ==
  computeDayTotalsIn([AppState EXCEPT !.habitLogs = << [habitLogs[1] EXCEPT !.count = c] >>],
                     d).totalPoints - WithoutLogs(d)

\* C14: for a counter habit with target >= 1 scheduled on the scored weekday the
\* contribution is floor(clamp(count, 0, target) / target * points): non-decreasing
\* in count, equal to points when count >= target, 0 at count 0, rounded down
\* (target 3, points 10, count 1 gives 3).
C14_CounterPartialCredit ==
  (Scored /\ CounterScored(lastOp.date) /\ habits[1].target >= 1) =>
    LET d == lastOp.date
        T == habits[1].target
        P == habits[1].points IN
    /\ lastOp.value.totalPoints - WithoutLogs(d) = CounterContribution(d, habitLogs[1].count)
    /\ \A c1, c2 \in LogCounts :
         c1 <= c2 => CounterContribution(d, c1) <= CounterContribution(d, c2)
    /\ \A c \in LogCounts :
         /\ c >= T => CounterContribution(d, c) = P
         /\ (c < T /\ P > 0) => CounterContribution(d, c) < P
         /\ CounterContribution(d, c) * T <= clamp(c, 0, T) * P
         /\ clamp(c, 0, T) * P < (CounterContribution(d, c) + 1) * T
    /\ CounterContribution(d, 0) = 0
    /\ (T = 3 /\ P = 10) => CounterContribution(d, 1) = 3

C14_Witness ==
  /\ Scored /\ CounterScored(lastOp.date)
  /\ habits[1].target = 3 /\ habits[1].points = 10 /\ habitLogs[1].count = 1
  /\ tasks = <<>> /\ events = <<>> /\ assignedQuests = <<>>
  /\ lastOp.value.totalPoints = 3

\* C15: for a counter habit whose target is 0 or negative, computeDayTotals and
\* allScheduledHabitsComplete behave as if the target were 1: a log with count >= 1
\* earns the points and counts as complete, a log with count 0 earns 0 and counts as
\* incomplete.
C15_DegenerateTargetIsOne ==
  (lastOp.op # "none" /\ CounterScored(lastOp.date) /\ habits[1].target <= 0) =>
    LET d == lastOp.date
        done == habitLogs[1].count >= 1 IN
    /\ lastOp.op = "score" =>
         lastOp.value.totalPoints - WithoutLogs(d) = IF done THEN habits[1].points ELSE 0
    /\ lastOp.op = "habits" => (lastOp.complete <=> done)

\* the day holds a completed binary habit worth 20 scheduled on its weekday and a
\* completed 40-point event with points enabled, and nothing else
HabitAndEventScenario(d) ==
  /\ tasks = <<>> /\ assignedQuests = <<>>
  /\ Len(habits) = 1 /\ Len(habitLogs) = 1 /\ Len(events) = 1
  /\ habits[1].type = "binary" /\ habits[1].points = 20
  /\ TrueWeekday(d) \in habits[1].schedule
  /\ habitLogs[1].habitId = habits[1].id /\ habitLogs[1].date = d
  /\ habitLogs[1].count = 1
  /\ events[1].pointsEnabled /\ events[1].points = 40
  /\ events[1].completedAt # Null /\ InDateWindow(events[1].completedAt, d)
  /\ settings.dailyGoal = 50

\* C16: totalPoints is the sum of what the tasks, the habit logs, the events and the
\* assigned quests of the date contribute, goalMet is totalPoints >= dailyGoal, and
\* a binary habit worth 20 scheduled that weekday with count 1 plus a 40-point
\* event completed that day give totalPoints 60 and goalMet true for goal 50.
C16_TotalAndGoal ==
  Scored =>
    LET d == lastOp.date IN
    /\ lastOp.value.date = d
    /\ lastOp.value.totalPoints = OnlyTasks(d) + OnlyLogs(d) + OnlyEvents(d) + OnlyQuests(d)
    /\ lastOp.value.goalMet <=> (lastOp.value.totalPoints >= settings.dailyGoal)
    /\ HabitAndEventScenario(d) =>
         lastOp.value = [ date |-> d, totalPoints |-> 60, goalMet |-> TRUE ]

SummaryCurrent(d) ==
  /\ computeDayTotals(d) \in SeqToSet(daySummaries)
  /\ computeDayTotals(d) \in db.daySummaries
  /\ \A r \in db.daySummaries : r.date = d => r = computeDayTotals(d)
\* a mutation entry point has run
Mutated(S, T) == S.tasks # T.tasks \/ S.habits # T.habits \/ S.habitLogs # T.habitLogs
                   \/ S.events # T.events \/ S.questLibrary # T.questLibrary
                   \/ S.settings # T.settings

\* C18: after a mutation entry point completes (create, update, delete, completion
\* toggle, change of the daily goal), the stored DaySummary of every date whose
\* score the mutation changed equals computeDayTotals of that date on the new
\* state; this includes deleting a completed item and un-completing an item
\* completed on an earlier date.
C18_SummaryCacheConsistent ==
  [][ Mutated(AppState, AppState') =>
        \A d \in Days : (computeDayTotals(d)' # computeDayTotals(d)) => SummaryCurrent(d)'
    ]_vars

\* C19: when the storage write of a completion toggle fails, the failure is
\* surfaced and the in-memory entity keeps the completion state it had, so the
\* in-memory tasks are the persisted tasks after the failed write.
C19_FailedToggleLeavesMemory ==
  lastOp.op = "toggle_failed" => SeqToSet(tasks) = db.tasks

\* C20: when a write inside a DayChanged rollover failed and a later
\* ensureRollover() for the same date has succeeded, the streak rule has been
\* applied exactly once for that date by the two calls together and the daily
\* quests of the date are one batch.
C20_RetryAfterFailure ==
  \A p \in Callers :
    (Completed(p) /\ lastOp.op = "rollover_failed" /\ lastOp.date = loc[p].today) =>
      /\ hStreakRuns[loc[p].today] = 1
      /\ Cardinality(DailyRecordsOn(loc[p].today))
           <= Min(settings.dailyQuestCount, Len(ActivePool))

\* the rollover for date d has happened
RolledOver(d) ==
  /\ meta.lastAssignmentRun = d
  /\ hDailyCalls[d] >= 1
  /\ \E i \in 1 .. Len(daySummaries) : daySummaries[i].date = d

\* C21: with the timer callback scheduled fairly and no storage failure, whenever
\* the date is d and lastAssignmentRun is not d, then unless the date changes again
\* a state is reached in which lastAssignmentRun = d, assignDailyQuests has run for
\* d and a DaySummary of d exists.
C21_RolloverEventually ==
  \A d \in Days :
    (Today = d /\ meta.lastAssignmentRun # d) ~> (Today # d \/ RolledOver(d))

\* the timer callback has carried a day change through, daily quests included
C21_Witness ==
  /\ pc["timer"] = "done" /\ hist["timer"].branch = "changed"
  /\ RolledOver(Today) /\ DailyRecordsOn(Today) # {}

\* C22: when boot() completes, the Settings singleton and the lifecycle record
\* exist in memory and in the stores (the stored ones, or the defaults if none was
\* stored), boot has run ensureRollover() once, no timer or visibility callback
\* has run before it returned, and lastAssignmentRun is the date at which that
\* rollover started.
C22_BootContract ==
  /\ [](Completed("boot") =>
          /\ settings # Missing /\ db.settings = settings
          /\ meta # Missing /\ db.meta = meta
          /\ meta.lastAssignmentRun = loc["boot"].today
          /\ lastCall.today = Null)
  /\ [](~BootDone => pc["timer"] = "idle" /\ pc["vis"] = "idle")
  /\ [][ /\ pc'["boot"] = "ready" => pc["boot"] \in {"load", "ready"}
         /\ (pc["boot"] = "load" /\ pc'["boot"] = "ready") =>
              /\ settings' = (IF db.settings = Missing THEN DefaultSettings ELSE db.settings)
              /\ meta' = (IF db.meta = Missing THEN DefaultMeta ELSE db.meta)
              /\ db'.settings = settings' /\ db'.meta = meta'
     ]_vars

\* boot() found stored settings and yesterday's lifecycle record, and its rollover
\* ended on a later date than it started
C22_Witness ==
  /\ Completed("boot") /\ hist["boot"].branch = "changed"
  /\ settings.dailyGoal = 50
  /\ Today # loc["boot"].today

\* `new` is `old` with records appended whose completedAt is unset
AppendedOnly(old, new) ==
  /\ Len(new) >= Len(old)
  /\ SubSeq(new, 1, Len(old)) = old
  /\ \A i \in (Len(old) + 1) .. Len(new) : new[i].completedAt = Null

\* C23: every step of a rollover, the steps of assignDailyQuests and
\* assignWeeklyQuests included, only appends assigned quests with completedAt unset,
\* in memory and in the store: it deletes none and changes no field of one.
C23_AssignmentIsAdditive ==
  [][ pc' # pc =>
        /\ AppendedOnly(assignedQuests, assignedQuests')
        /\ db.assignedQuests \subseteq db'.assignedQuests
        /\ \A r \in db'.assignedQuests \ db.assignedQuests : r.completedAt = Null
    ]_vars

\* a rollover has added quests while a daily quest of an earlier date is completed
C23_Witness ==
  \E p \in Callers :
    /\ Completed(p) /\ hist[p].added >= 1
    /\ \E i \in 1 .. Len(hist[p].aq0) :
         /\ assignedQuests[i].type = "daily" /\ assignedQuests[i].date < loc[p].today
         /\ assignedQuests[i].completedAt # Null

\* C24: after any sequence of habit interactions, two handlers for the same habit in
\* flight together included, the in-memory habit logs hold at most one log for each
\* (habitId, date).
C24_OneLogPerHabitPerDay ==
  \A i, j \in 1 .. Len(habitLogs) :
    (habitLogs[i].habitId = habitLogs[j].habitId /\ habitLogs[i].date = habitLogs[j].date)
      => i = j

\* the habit a log belongs to
HabitOf(log) == habits[FirstIdx(FindAll(habits, log.habitId))]

\* C29: after any sequence of toggleHabitBinary, stepHabitCounter,
\* completeHabitCounter and habit edits, every log of a counter habit has a count in
\* [0, target of its habit] and every log of a binary habit a count in {0, 1}.
C29_LogCountRange ==
  \A j \in 1 .. Len(habitLogs) :
    FindAll(habits, habitLogs[j].habitId) # {} =>
      LET h == HabitOf(habitLogs[j]) IN
      /\ habitLogs[j].count >= 0
      /\ habitLogs[j].count <= (IF h.type = "binary" THEN 1 ELSE h.target)

\* C30: when toggleHabitBinary, stepHabitCounter or completeHabitCounter has
\* completed, the log it created or changed has completedAt set if and only if its
\* count meets the threshold of its habit (>= 1 for binary, >= target for counter);
\* a full counter stepped down by one has completedAt unset.
C30_CompletionFlag ==
  [][ \A j \in 1 .. Len(habitLogs') :
        (j > Len(habitLogs) \/ habitLogs'[j] # habitLogs[j]) =>
          LET log == habitLogs'[j]
              h == HabitOf(log) IN
          (log.completedAt # Null) <=>
            (log.count >= (IF h.type = "binary" THEN 1 ELSE h.target))
    ]_vars

\* a counter of target 3 that was full has been stepped down to 2
C30_Witness ==
  /\ lastOp.op = "dec" /\ lastOp.complete
  /\ Len(habitLogs) = 1
  /\ habitLogs[1].count = 2 /\ habitLogs[1].completedAt = Null
  /\ HabitOf(habitLogs[1]).type = "counter" /\ HabitOf(habitLogs[1]).target = 3

\* AppState without the logs whose habit and the assigned quests whose library
\* entry no longer exist
WithoutOrphans ==
  [AppState EXCEPT
     !.habitLogs = SelectSeq(habitLogs, LAMBDA l : FindAll(habits, l.habitId) # {}),
     !.assignedQuests = SelectSeq(assignedQuests,
                                  LAMBDA a : FindAll(questLibrary, a.libraryId) # {})]

\* C25: in a state where a habit log names a habit that no longer exists or an
\* assigned quest a library entry that no longer exists, computeDayTotals and
\* allScheduledHabitsComplete return, that log or quest adds 0 points, and a log
\* without its habit does not make the habit check fail.
C25_MissingReferentsSkipped ==
  /\ Scored =>
       lastOp.value = computeDayTotalsIn(WithoutOrphans, lastOp.date)
  /\ (lastOp.op = "habits" /\ habits = <<>>) => lastOp.complete

\* a completed log without its habit and a completed quest without its library
\* entry were all there was to score on the date
C25_Witness ==
  /\ Scored /\ lastOp.date = Today
  /\ habits = <<>> /\ Len(habitLogs) = 1 /\ habitLogs[1].count >= 1
  /\ questLibrary = <<>> /\ Len(assignedQuests) = 1
  /\ tasks = <<>> /\ events = <<>>
  /\ lastOp.value.totalPoints = 0

\* C26: allScheduledHabitsComplete(date) is true when no habit is scheduled on the
\* weekday of date, and otherwise exactly when every habit scheduled on that weekday
\* has a log for the date with count >= 1 (binary) or count >= target (counter);
\* habits not scheduled on that weekday do not affect the result.
C26_HabitCheck ==
  lastOp.op = "habits" =>
    LET d == lastOp.date
        scheduled == { i \in 1 .. Len(habits) : TrueWeekday(d) \in habits[i].schedule }
        met(h) == \E j \in 1 .. Len(habitLogs) :
                    /\ habitLogs[j].habitId = h.id /\ habitLogs[j].date = d
                    /\ habitLogs[j].count >= (IF h.type = "binary" THEN 1 ELSE h.target)
    IN  lastOp.complete <=> (\A i \in scheduled : met(habits[i]))

\* C27: for every date D and every UTC offset, the weekday computeDayTotals(D) and
\* allScheduledHabitsComplete(D) test a habit's schedule against is the weekday of
\* calendar date D, the one the home view offers habits by; a binary habit scheduled
\* and completed on D is scored on D and a habit scheduled on D without a log fails
\* the streak check.
C27_WeekdayAgreement ==
  lastOp.op # "none" =>
    LET d == lastOp.date
        offered == { i \in 1 .. Len(habits) : TrueWeekday(d) \in habits[i].schedule } IN
    /\ WeekdayOfDateStr(d) = TrueWeekday(d)
    /\ (Scored /\ Len(habits) = 1 /\ Len(habitLogs) = 1 /\ offered # {}
          /\ habits[1].type = "binary"
          /\ habitLogs[1].date = d /\ habitLogs[1].count >= 1) =>
         lastOp.value.totalPoints - WithoutLogs(d) = habits[1].points
    /\ (lastOp.op = "habits" /\ offered # {} /\ habitLogs = <<>>) => ~lastOp.complete

\* the writes of a call to a store other than assignedQuests
OtherWrites(p) == SelectSeq(hist[p].writes, LAMBDA w : w[1] # "assignedQuests")

\* C28: a DayChanged rollover finalizing P on date t works in this order: the summary
\* of P is recomputed from the current entities and persisted, then the streak rule is
\* evaluated with that summary; the daily assignment follows the streak update; the
\* summary of t is written after the daily assignment; the weekly check follows; and
\* lastAssignmentRun is set and the lifecycle record persisted only after all of these.
C28_DayChangedOrder ==
  \A p \in Callers :
    hist[p].branch = "changed" =>
      LET h == hist[p]
          w == h.writes
          n == Len(w)
          P == loc[p].prev
          t == loc[p].today IN
      \* nothing is decided before the summary of P is persisted
      /\ pc[p] = "dc_prev_wait" => (w = <<>> /\ h.streakFor = <<>> /\ meta = h.meta0)
      \* the streak rule runs on the summary just persisted, which is the fresh one
      /\ h.streakFor # <<>> => (n >= 1 /\ w[1] = <<"daySummaries", P>> /\ h.streakFor = <<P>>)
      /\ pc[p] = "dc_daily" =>
           /\ w = << <<"daySummaries", P>> >>
           /\ { s \in db.daySummaries : s.date = P } = { computeDayTotals(P) }
           /\ \E i \in 1 .. Len(daySummaries) : daySummaries[i] = computeDayTotals(P)
           /\ meta = StreakRule(h.meta0, computeDayTotals(P).goalMet,
                                allScheduledHabitsComplete(P))
           /\ hDailyCalls[t] = 0
      \* the daily assignment precedes the summary of t, the weekly check follows it
      /\ (\E i \in 1 .. n : w[i] = <<"daySummaries", t>>) =>
           (hDailyCalls[t] = 1 /\ h.streakFor = <<P>>)
      /\ pc[p] \in {"dc_daily_wait", "dc_today", "dc_today_wait"} =>
           (hDailyCalls[t] = 1 /\ ~loc[p].weekly /\ OtherWrites(p) = << <<"daySummaries", P>> >>)
      /\ pc[p] \in {"dc_weekly", "dc_weekly_wait", "dc_meta"} =>
           OtherWrites(p) = << <<"daySummaries", P>>, <<"daySummaries", t>> >>
      /\ \A i \in 1 .. n :
           w[i][1] = "assignedQuests" =>
             \/ i = 2 /\ w[i][2] = t /\ (n >= 3 => w[3] = <<"daySummaries", t>>)
             \/ i >= 3 /\ loc[p].weekly /\ w[i][2] = loc[p].week
                       /\ w[i - 1] = <<"daySummaries", t>>
      \* lastAssignmentRun and the lifecycle record come last
      /\ pc[p] \notin {"dc_meta_wait", "done"} =>
           (meta.lastAssignmentRun = P /\ db.meta = h.meta0)
      /\ pc[p] = "dc_meta_wait" => (meta.lastAssignmentRun = t /\ db.meta = h.meta0)
      /\ Completed(p) =>
           /\ OtherWrites(p) = << <<"daySummaries", P>>, <<"daySummaries", t>>,
                                  <<"meta", Null>> >>
           /\ w[n] = <<"meta", Null>>
           /\ meta.lastAssignmentRun = t /\ db.meta = meta

\* a DayChanged rollover has completed after making both assignments, and the goal
\* of the finalized day was met
C28_Witness ==
  \E p \in Callers :
    /\ Completed(p) /\ hist[p].branch = "changed"
    /\ Len(hist[p].writes) = 5
    /\ meta.streak = hist[p].meta0.streak + 1

\* C31: for a task, a points-enabled event or an assigned quest that is not completed,
\* two successive completion toggles with nothing in between leave it not completed
\* and leave the DaySummary of the current date as it was before the first toggle;
\* a toggle of an event whose pointsEnabled is false changes nothing.
C31_ToggleRoundTrip ==
  /\ (lastOp.op = "toggle2" /\ lastOp.enabled /\ ~lastOp.wasComplete) =>
        (~lastOp.complete /\ lastOp.now = lastOp.before)
  /\ (lastOp.op \in {"toggle1", "toggle2"} /\ ~lastOp.enabled) =>
        lastOp.after = lastOp.prior

\* a deleteHabit(id) has not yet returned
Deleting(id) ==
  \E c \in Clicks : pc[c] \in {"del_wait", "bulk_wait"} /\ loc[c].habit.id = id

\* C32: once deleteHabit(id) has completed, no habit log in memory or in storage has
\* habitId = id, also when a handler of a button of the same habit, which creates the
\* day's log lazily, was in flight while the deletion ran.
C32_DeleteCascade ==
  \A l \in SeqToSet(habitLogs) \cup db.habitLogs :
    FindAll(habits, l.habitId) # {} \/ Deleting(l.habitId)

\* the cached summaries of date d, and the score a lookup of d is to return
CachedFor(d) == { r \in SeqToSet(daySummaries) : r.date = d }
Expected(d) == IF CachedFor(d) # {} THEN CHOOSE r \in CachedFor(d) : TRUE
               ELSE computeDayTotals(d)
RECURSIVE ExpectedSum(_)
ExpectedSum(dates) ==
  IF dates = {} THEN 0
  ELSE LET d == CHOOSE x \in dates : TRUE IN
       Expected(d).totalPoints + ExpectedSum(dates \ {d})

\* C33: every score lookup for a date (KPI header, day sheet, heatmap, range and month
\* sums, line charts) returns the cached DaySummary when one exists for the date and
\* computeDayTotals(date) otherwise, and creates no cached record.
C33_LookupFallback ==
  [][ (lastOp' # lastOp /\ lastOp'.op \in {"kpi", "daysheet", "stats"}) =>
        /\ daySummaries' = daySummaries /\ db' = db
        /\ lastOp'.op = "kpi" => lastOp'.value = Expected(Today)
        /\ lastOp'.op = "daysheet" => lastOp'.value = Expected(lastOp'.date)
        /\ lastOp'.op = "stats" =>
             /\ \A i \in 1 .. HeatmapDays :
                  lastOp'.heat[i] = Expected(Today - HeatmapDays + i).totalPoints
             /\ lastOp'.week = ExpectedSum((Today - 6) .. Today)
             /\ lastOp'.month = ExpectedSum(MonthStart .. (MonthStart + DaysInMonth - 1))
             /\ \A n \in ChartDays : \A i \in 1 .. n :
                  lastOp'.charts[n][i] = Expected(Today - n + i).totalPoints
    ]_vars

\* the statistics were rendered while the cached summary of today was stale (100
\* points of a task since deleted) and the days before first use had no record
C33_Witness ==
  /\ lastOp.op = "stats" /\ lastOp.date = Today
  /\ lastOp.week = 100 /\ lastOp.month = 100
  /\ computeDayTotals(Today).totalPoints = 0
  /\ CachedFor(FirstDay - 1) = {}

\* C34: in every reachable state streak >= 0 and bestStreak >= streak, in memory and
\* in the stored lifecycle record, and no operation (rollover, user mutation,
\* settings change) decreases bestStreak.
C34_StreakBounds ==
  /\ [](meta.streak >= 0 /\ meta.bestStreak >= meta.streak)
  /\ [](db.meta.streak >= 0 /\ db.meta.bestStreak >= db.meta.streak)
  /\ [][ meta'.bestStreak >= meta.bestStreak
         /\ db'.meta.bestStreak >= db.meta.bestStreak ]_vars

\* a streak was built and then lost: the best streak outlives it
C34_Witness ==
  /\ meta.streak = 0 /\ meta.bestStreak >= 1
  /\ db.meta = meta

\* no upsertDaySummary call is in flight
NoUpsertInFlight == \A q \in Upserters : pc[q] = "idle"

\* C35: whatever the interleaving of upsertDaySummary calls (rollover, timer refresh,
\* user mutation), the in-memory daySummaries list never holds two records of one
\* date, and when the calls have returned its record of each date is the record last
\* written to storage for that date.
C35_OneSummaryPerDate ==
  /\ \A i, j \in 1 .. Len(daySummaries) :
       daySummaries[i].date = daySummaries[j].date => i = j
  /\ NoUpsertInFlight => SeqToSet(daySummaries) = db.daySummaries

\* every call has returned; the one that returned last was issued while another was
\* in flight and carried the completed task
C35_Witness ==
  /\ NoUpsertInFlight
  /\ lastOp.op = "upsert" /\ lastOp.complete /\ lastOp.value.totalPoints = 100
  /\ SeqToSet(daySummaries) = { lastOp.value }

(* ------------------- sw.js: the fetch handler, navigation ------------------- *)

\* the requests the page sends: method, mode and whether the accept header
\* names text/html; same-origin assets and cross-origin requests (the two
\* later branches of the handler) are left out
Methods == {"GET", "POST"}
Modes == {"navigate", "cors"}
Urls == {"index.html", "other.html"}
Requests ==
  { r \in [ method : Methods, mode : Modes, acceptsHtml : BOOLEAN, url : Urls ] :
      r.method # "GET" \/ r.mode = "navigate" \/ r.acceptsHtml }

\* what fetch(req) does: it rejects when the network fails, and resolves with
\* the server's response whatever its status
NetworkFailed == [ status |-> 0, body |-> "failed" ]
Statuses == {200, 404, 500}
NetworkOutcomes(req) ==
  {NetworkFailed} \cup
  { [ status |-> st, body |-> IF st = 200 THEN req.url ELSE "error" ] : st \in Statuses }

\* new Response('<h1>Offline</h1>', ...): status 200 by default
OfflinePage == [ status |-> 200, body |-> "offline" ]
\* event.respondWith was not called: the browser handles the request itself
NotHandled == [ status |-> 0, body |-> "default" ]

IsNavigation(req) == req.mode = "navigate" \/ req.acceptsHtml

\* cache.put('./index.html', fresh.clone())
CachePut(fresh) == fresh

\* cached || new Response('<h1>Offline</h1>')
Fallback(cached) == IF cached # NoEntry THEN cached ELSE OfflinePage

\* one fetch event, from the handler's first line to the response it gives
FetchEvent ==
  /\ NoCallInFlight
  /\ \E req \in Requests : \E net \in NetworkOutcomes(req) :
       LET handled == req.method = "GET" /\ IsNavigation(req)
           resolved == net # NetworkFailed
           response == IF ~handled THEN NotHandled
                       ELSE IF resolved THEN net
                       ELSE Fallback(db.cache)
       IN /\ db' = IF handled /\ resolved
                     THEN [db EXCEPT !.cache = CachePut(net)]
                     ELSE db
          /\ lastOp' = [ op |-> "fetch", date |-> Today, value |-> NoSum,
                         item |-> req, complete |-> handled, now |-> net,
                         before |-> db.cache, after |-> response,
                         stored |-> db'.cache ]
  /\ UNCHANGED << clock, tzOffset, settings, meta, entityVars, assignedQuests,
                  daySummaries, handlerFrame >>

\* the browser drops the origin's cache (storage pressure, "clear site data")
CacheEvicted ==
  /\ NoCallInFlight
  /\ db.cache # NoEntry
  /\ db' = [db EXCEPT !.cache = NoEntry]
  /\ UNCHANGED << clock, tzOffset, settings, meta, entityVars, assignedQuests,
                  daySummaries, handlerFrame, lastOp >>

NextWorker ==
  \/ Tick
  \/ FetchEvent
  \/ CacheEvicted

SpecWorker == Init /\ [][NextWorker]_vars

(* C36: every GET navigation request is answered from the network when the
   network answers; when the network fails the answer is the cached
   ./index.html, or the built-in offline page when nothing is cached; the
   cached ./index.html is replaced only by a status-200 response, so that a
   cached entry, whenever there is one, is the app shell. *)
C36_NavigationFallback ==
  /\ db.cache # NoEntry => db.cache = ShellResponse
  /\ (lastOp.op = "fetch" /\ lastOp.complete) =>
       /\ lastOp.now # NetworkFailed => lastOp.after = lastOp.now
       /\ lastOp.now = NetworkFailed =>
            lastOp.after = (IF lastOp.before # NoEntry THEN lastOp.before ELSE OfflinePage)
       /\ lastOp.now = NetworkFailed =>
            lastOp.after \in {ShellResponse, OfflinePage}
       /\ lastOp.stored # lastOp.before => lastOp.now.status = 200

====
